---- MODULE Spec2Model ----
(***************************************************************************)
(* Model of the functional-form engine of econ_models:                     *)
(*   src/econmodels/functional_forms/base.py  (class BaseForms)            *)
(* BaseForms builds symbolic expressions with SymPy and specialises them   *)
(* with sub_symbols.  Python values, SymPy symbols and SymPy expressions   *)
(* are modelled as tagged records (field t is the Python/SymPy type).      *)
(***************************************************************************)
EXTENDS Integers, Sequences, FiniteSets, TLC

\* Largest num_inputs (and longest directive tuple) explored.
MaxInputs == 2

(***************************************************************************)
(* Python values that callers pass as directives.                          *)
(***************************************************************************)
PyNone == [t |-> "none"]
PyStr(s) == [t |-> "str", s |-> s]
PyInt(v) == [t |-> "int", v |-> v]
PyTuple(items) == [t |-> "tuple", items |-> items]
PyList(items) == [t |-> "list", items |-> items]

\* The whole-directive sentinel compared at base.py:244 and the
\* tuple-position sentinel compared at base.py:254-255.
SYMBOLS == PyStr("symbols")
KEEP == PyStr("symbol")

(***************************************************************************)
(* SymPy objects.  Two symbols are equal iff class, name and assumptions   *)
(* are equal, which is record equality here.                               *)
(***************************************************************************)
Symbol(name, real) == [t |-> "Symbol", name |-> name, real |-> real]
IndexedBase(name, real) == [t |-> "IndexedBase", name |-> name, real |-> real]
Idx(name) == [t |-> "Idx", name |-> name, real |-> TRUE]
Indexed(base, i) == [t |-> "Indexed", base |-> base, i |-> i]
Integer(v) == [t |-> "Integer", v |-> v]
Tuple(items) == [t |-> "Tuple", items |-> items]

Range(f) == {f[x] : x \in DOMAIN f}

(***************************************************************************)
(* Display names.  Each name set is one choice of the five *_name          *)
(* arguments of BaseForms.__init__; the first is the defaults.             *)
(***************************************************************************)
DefaultNames ==
    [input_name |-> "x", coeff_name |-> "beta", exponent_name |-> "alpha",
     dependent_name |-> "Y", constant_name |-> "C"]

CustomNames ==
    [input_name |-> "x", coeff_name |-> "a", exponent_name |-> "b",
     dependent_name |-> "y", constant_name |-> "c"]

NameSets == {DefaultNames, CustomNames}

(***************************************************************************)
(* BaseForms.__init__ : the registry (symbol_dict).                        *)
(***************************************************************************)
SymbolDict(names) ==
    [constant    |-> Symbol(names.constant_name, TRUE),
     dependent   |-> Symbol(names.dependent_name, TRUE),
     i           |-> Idx("i"),
     coefficient |-> IndexedBase(names.coeff_name, TRUE),
     exponent    |-> IndexedBase(names.exponent_name, TRUE),
     inputs      |-> IndexedBase(names.input_name, TRUE)]

\* The object before construction (no attribute is set).
NoObject == [alive |-> FALSE]

BaseFormsObject(n, names, cv, ev, dv, kv) ==
    [alive           |-> TRUE,
     num_inputs      |-> n,
     names           |-> names,
     coeff_values    |-> cv,
     exponent_values |-> ev,
     dependent_value |-> dv,
     constant_value  |-> kv,
     symbol_dict     |-> SymbolDict(names)]

\* Outcomes of an operation: a returned value or a raised exception.
Return(v) == [status |-> "return", value |-> v]
Raise(exc) == [status |-> "raise", exc |-> exc]
NoOutcome == [status |-> "none"]

\* __init__ that also rejects num_inputs = 0.
NewBaseForms_rejectZero(n, names, cv, ev, dv, kv) ==
    IF n <= 0
    THEN Raise("Exception")
    ELSE Return(BaseFormsObject(n, names, cv, ev, dv, kv))

\* BaseForms(num_inputs=n, ...): the check at base.py:147-150, then the
\* attributes.
NewBaseForms(n, names, cv, ev, dv, kv) ==
    IF n < 0
    THEN Raise("Exception")
    ELSE Return(BaseFormsObject(n, names, cv, ev, dv, kv))

\* Input_Constraint(num_inputs=n, ...): constraint.py:61-84.  After the
\* parent constructor it looks up self.polynomial_combination, which
\* neither Input_Constraint nor BaseForms defines.
NewInputConstraint(n, names, cv, ev, dv, kv) ==
    LET r == NewBaseForms(n, names, cv, ev, dv, kv)
    IN  IF r.status = "raise" THEN r ELSE Raise("AttributeError")

(***************************************************************************)
(* Library behaviour that the repository does not pin down (it depends on  *)
(* the installed SymPy release), drawn nondeterministically per call:      *)
(*   tupleInAdd : a Tuple put where a term of a sum stood either raises    *)
(*                AttributeError or is kept as a (malformed) term;         *)
(*   tupleInPow : a Tuple put where an exponent stood raises one of two    *)
(*                low-level errors;                                        *)
(*   noneNew    : a Python None or list left as a replacement (strict      *)
(*                sympify refuses both) is either dropped from the         *)
(*                substitution or rejected with SympifyError;              *)
(*   realFinite : whether a real symbol is known finite, so that an        *)
(*                infinite term absorbs it.                                *)
(***************************************************************************)
Envs ==
    [tupleInAdd : {"AttributeError", "kept"},
     tupleInPow : {"AttributeError", "TypeError"},
     noneNew    : {"dropped", "SympifyError"},
     realFinite : BOOLEAN]

\* The choices an expression of each kind can depend on (the others are
\* fixed, since no such node or replacement occurs in it).
AddEnvs == {e \in Envs : e.tupleInPow = "AttributeError"
                          /\ e.noneNew = "dropped" /\ e.realFinite}

MinEnvs == {e \in Envs : e.tupleInPow = "AttributeError"
                          /\ e.noneNew = "dropped"
                          /\ e.tupleInAdd = "AttributeError"}

PowEnvs == {e \in Envs : e.noneNew = "dropped" /\ e.realFinite}

(***************************************************************************)
(* SymPy expressions.  Every expression the forms build has the shape      *)
(*     comb_j(coef_j * inp_j ** exp_j) ** (1/root) + constant - dependent  *)
(* with comb one of Sum, Product, Min.  An expression is the record of its *)
(* leaves; an absent factor or term is its neutral Integer.                *)
(***************************************************************************)
Term(c, x, e) == [t |-> "Term", coef |-> c, inp |-> x, exp |-> e]

Expr(form, terms, root, constant, dependent) ==
    [t |-> "Expr", form |-> form, terms |-> terms, root |-> root,
     constant |-> constant, dependent |-> dependent]

Error(exc) == [t |-> "error", exc |-> exc]

RECURSIVE IPow(_, _)
IPow(b, e) == IF e <= 0 THEN 1 ELSE b * IPow(b, e - 1)

\* Automatic evaluation of coef * inp ** exp by Mul and Pow.
EvalPow(term) ==
    IF term.exp = Integer(0) \/ term.inp = Integer(1)
    THEN Term(term.coef, Integer(1), Integer(1))
    ELSE IF term.inp.t = "Integer" /\ term.exp.t = "Integer" /\ term.exp.v >= 0
    THEN Term(term.coef, Integer(IPow(term.inp.v, term.exp.v)), Integer(1))
    ELSE term

EvalMul(term) ==
    IF term.coef = Integer(0)
    THEN Term(Integer(0), Integer(1), Integer(1))
    ELSE IF term.coef.t = "Integer" /\ term.inp.t = "Integer" /\ term.exp = Integer(1)
    THEN Term(Integer(term.coef.v * term.inp.v), Integer(1), Integer(1))
    ELSE term

EvalTerm(term) == EvalMul(EvalPow(term))

\* Automatic evaluation of Add around an infinite term (Min() is oo): a
\* number is absorbed, and so is a real symbol when real implies finite.
Absorbed(leaf, env) ==
    \/ leaf.t = "Integer"
    \/ leaf.t = "Symbol" /\ leaf.real /\ env.realFinite

IsInfinite(e) == e.form = "Min" /\ e.terms = <<>>

EvalAdd(e, env) ==
    IF IsInfinite(e)
    THEN [e EXCEPT !.constant = IF Absorbed(@, env) THEN Integer(0) ELSE @,
                   !.dependent = IF Absorbed(@, env) THEN Integer(0) ELSE @]
    ELSE e

(***************************************************************************)
(* Basic.subs for one (old, new) pair: every occurrence of old is          *)
(* replaced and the node above it is rebuilt.                              *)
(***************************************************************************)
\* Rebuilding Indexed(new, i) (Indexed.__new__), or replacing a leaf.
SubsAtom(leaf, old, new) ==
    IF leaf.t = "Indexed"
    THEN IF leaf.base # old THEN leaf
         ELSE IF new.t = "Tuple"
              THEN IF leaf.i < Len(new.items)
                   THEN new.items[leaf.i + 1]
                   ELSE Error("IndexError")
         ELSE IF new.t = "Symbol"
              THEN Indexed(IndexedBase(new.name, new.real), leaf.i)
         ELSE IF new.t = "IndexedBase"
              THEN Indexed(new, leaf.i)
         ELSE Error("TypeError")
    ELSE IF leaf = old THEN new ELSE leaf

\* A leaf in a factor or exponent position; a Tuple cannot stand there.
SubsFactor(leaf, old, new, exc) ==
    LET r == SubsAtom(leaf, old, new)
    IN  IF r.t = "Tuple" /\ leaf.t # "Tuple" THEN Error(exc) ELSE r

SubsTerm(term, old, new, env) ==
    LET c == SubsFactor(term.coef, old, new, "AttributeError")
        x == SubsFactor(term.inp, old, new, "AttributeError")
        e == SubsFactor(term.exp, old, new, env.tupleInPow)
    IN  IF c.t = "error" THEN c
        ELSE IF x.t = "error" THEN x
        ELSE IF e.t = "error" THEN e
        ELSE EvalTerm(Term(c, x, e))

FirstError(seq) ==
    IF \E j \in DOMAIN seq : seq[j].t = "error"
    THEN seq[CHOOSE j \in DOMAIN seq :
                /\ seq[j].t = "error"
                /\ \A k \in DOMAIN seq : seq[k].t = "error" => j <= k]
    ELSE [t |-> "none"]

SubsOne(expr, old, new, env) ==
    LET terms == [j \in DOMAIN expr.terms |-> SubsTerm(expr.terms[j], old, new, env)]
        root  == SubsFactor(expr.root, old, new, env.tupleInPow)
        const == IF env.tupleInAdd = "kept"
                 THEN SubsAtom(expr.constant, old, new)
                 ELSE SubsFactor(expr.constant, old, new, "AttributeError")
        dep   == SubsFactor(expr.dependent, old, new, "AttributeError")
        err   == FirstError(terms \o <<root, const, dep>>)
    IN  IF err.t = "error" THEN err
        ELSE EvalAdd(Expr(expr.form, terms, root, const, dep), env)


(***************************************************************************)
(* Basic.subs(dict): the replacements are sympified, the pairs are sorted  *)
(* (objects with more nodes first: Idx and IndexedBase before Symbol; then *)
(* by class and name) and applied one after the other.                     *)
(***************************************************************************)
\* Every name that can occur, in Python string order.
AllNames ==
    <<"C", "M", "U", "Y", "a", "alpha", "b", "beta", "c", "gamma", "i",
      "lambda", "rho", "symbol", "symbols", "x", "y", "z">>

NameRank(name) == CHOOSE j \in DOMAIN AllNames : AllNames[j] = name

ClassRank(sym) ==
    IF sym.t = "Idx" THEN 0 ELSE IF sym.t = "IndexedBase" THEN 1 ELSE 2

SortKey(sym) == ClassRank(sym) * (Len(AllNames) + 1) + NameRank(sym.name)

\* sympify of one element of a tuple (not strict: a string is parsed).
SympifyItem(v) ==
    IF v.t = "int" THEN Integer(v.v)
    ELSE IF v.t = "str" THEN Symbol(v.s, FALSE)
    ELSE v

\* sympify of a replacement value.
Sympify(v) ==
    IF v.t = "int" THEN Integer(v.v)
    ELSE IF v.t = "str" THEN Symbol(v.s, FALSE)
    ELSE IF v.t = "tuple"
    THEN Tuple([j \in DOMAIN v.items |-> SympifyItem(v.items[j])])
    ELSE v

RECURSIVE Ordered(_)
Ordered(pairs) ==
    IF pairs = {} THEN <<>>
    ELSE LET first == CHOOSE p \in pairs :
                        \A q \in pairs : SortKey(p[1]) <= SortKey(q[1])
         IN  <<first>> \o Ordered(pairs \ {first})

RECURSIVE SubsSeq(_, _, _)
SubsSeq(expr, seq, env) ==
    IF seq = <<>> THEN expr
    ELSE LET r == SubsOne(expr, seq[1][1], Sympify(seq[1][2]), env)
         IN  IF r.t = "error" THEN r ELSE SubsSeq(r, Tail(seq), env)

\* func.subs left out: the function comes back as it was given.
Subs_skipped(func, symbol_values, env) == Return(func)

\* func.subs(symbol_values) at base.py:257, as an outcome.
Subs(func, symbol_values, env) ==
    LET pairs == {symbol_values[j] : j \in DOMAIN symbol_values}
        kept  == {p \in pairs : p[2] # PyNone /\ p[2].t # "list"}
    IN  IF kept # pairs /\ env.noneNew = "SympifyError"
        THEN Raise("SympifyError")
        ELSE LET r == SubsSeq(func, Ordered(kept), env)
             IN  IF r.t = "error" THEN Raise(r.exc) ELSE Return(r)

(***************************************************************************)
(* BaseForms.sub_symbols.  symbol_values is a Python dict: a sequence of   *)
(* <<symbol, value>> pairs with distinct symbols, in insertion order.      *)
(***************************************************************************)
DictKeys(d) == {d[j][1] : j \in DOMAIN d}

\* A pop that removes nothing.
DictPop_keeps(d, key) == d

\* symbol_values.pop(symbol) at base.py:245.
DictPop(d, key) == SelectSeq(d, LAMBDA p : p[1] # key)

DictUpdate(d, key, value) ==
    [j \in DOMAIN d |-> IF d[j][1] = key THEN <<key, value>> ELSE d[j]]

\* tuple([1] * (num_inputs - 1)).
Ones_offByOne(n) == PyTuple([j \in 1..(n - 1) |-> PyInt(1)])

\* tuple([1] * num_inputs) at base.py:248.
Ones(n) == PyTuple([j \in 1..n |-> PyInt(1)])

\* One iteration of the loop at base.py:243-255 for the item (symbol,
\* value), acting on the dict d; the comprehension at line 255 indexes
\* the symbol, which only an IndexedBase supports.
RECURSIVE ResolveLoop(_, _, _, _)
ResolveLoop(items, j, d, n) ==
    IF j > Len(items) THEN [raised |-> FALSE, values |-> d]
    ELSE
    LET symbol == items[j][1]
        value  == items[j][2]
    IN  IF value = SYMBOLS
        THEN ResolveLoop(items, j + 1, DictPop(d, symbol), n)
        ELSE IF value = PyNone
        THEN IF symbol.t = "IndexedBase"
             THEN ResolveLoop(items, j + 1, DictUpdate(d, symbol, Ones(n)), n)
             ELSE IF symbol.t = "Symbol"
             THEN ResolveLoop(items, j + 1, DictUpdate(d, symbol, PyInt(1)), n)
             ELSE ResolveLoop(items, j + 1, d, n)
        ELSE IF value.t = "tuple"
        THEN IF \E k \in DOMAIN value.items : value.items[k] = PyNone
             THEN ResolveLoop(items, j + 1,
                    DictUpdate(d, symbol,
                        PyTuple([k \in DOMAIN value.items |->
                            IF value.items[k] = PyNone THEN PyInt(1)
                            ELSE value.items[k]])), n)
             ELSE IF \E k \in DOMAIN value.items : value.items[k] = KEEP
             THEN IF symbol.t # "IndexedBase"
                  THEN [raised |-> TRUE, values |-> d]
                  ELSE ResolveLoop(items, j + 1,
                         DictUpdate(d, symbol,
                             PyTuple([k \in DOMAIN value.items |->
                                 IF value.items[k] = KEEP
                                 THEN Indexed(symbol, k - 1)
                                 ELSE value.items[k]])), n)
             ELSE ResolveLoop(items, j + 1, d, n)
        ELSE ResolveLoop(items, j + 1, d, n)

\* sub_symbols without the membership test of base.py:225-226.
sub_symbols_unvalidated(self, func, symbol_values, symbol_dict, env) ==
    LET loop == ResolveLoop(symbol_values, 1, symbol_values, self.num_inputs)
    IN  IF loop.raised
        THEN [outcome |-> Raise("TypeError"), left |-> loop.values]
        ELSE [outcome |-> Subs(func, loop.values, env), left |-> loop.values]

\* The call: outcome is what the caller gets, left is the caller's dict
\* after the call.
sub_symbols(self, func, symbol_values, symbol_dict, env) ==
    IF ~ (DictKeys(symbol_values) \subseteq Range(symbol_dict))
    THEN [outcome |-> Raise("Exception"), left |-> symbol_values]
    ELSE LET loop == ResolveLoop(symbol_values, 1, symbol_values, self.num_inputs)
         IN  IF loop.raised
             THEN [outcome |-> Raise("TypeError"), left |-> loop.values]
             ELSE [outcome |-> Subs(func, loop.values, env), left |-> loop.values]


(***************************************************************************)
(* The functional forms.  doit() expands the Sum/Product over the range    *)
(* (i, 0, num_inputs - 1) into its terms; an empty range leaves the        *)
(* neutral element of the combination.                                     *)
(***************************************************************************)
FormValues(self) ==
    <<  <<self.symbol_dict.coefficient, self.coeff_values>>,
        <<self.symbol_dict.exponent, self.exponent_values>>,
        <<self.symbol_dict.constant, self.constant_value>>,
        <<self.symbol_dict.dependent, self.dependent_value>>  >>

\* The terms over the range (i, 0, num_inputs).
InputForm_upperInclusive(self) ==
    [j \in 1..(self.num_inputs + 1) |->
        Term(Indexed(self.symbol_dict.coefficient, j - 1),
             Indexed(self.symbol_dict.inputs, j - 1),
             Indexed(self.symbol_dict.exponent, j - 1))]

\* The terms with exponent[0] under every input.
InputForm_firstExponent(self) ==
    [j \in 1..self.num_inputs |->
        Term(Indexed(self.symbol_dict.coefficient, j - 1),
             Indexed(self.symbol_dict.inputs, j - 1),
             Indexed(self.symbol_dict.exponent, 0))]

\* coefficient[i] * inputs[i] ** exponent[i] for i in the range.
InputForm(self) ==
    [j \in 1..self.num_inputs |->
        Term(Indexed(self.symbol_dict.coefficient, j - 1),
             Indexed(self.symbol_dict.inputs, j - 1),
             Indexed(self.symbol_dict.exponent, j - 1))]

AdditiveForm(self) ==
    Expr("Sum", InputForm(self), Integer(1),
         self.symbol_dict.constant, self.symbol_dict.dependent)

additive(self, env) ==
    sub_symbols(self, AdditiveForm(self), FormValues(self), self.symbol_dict, env)

MultiplicativeForm(self) ==
    Expr("Product", InputForm(self), Integer(1),
         self.symbol_dict.constant, self.symbol_dict.dependent)

multiplicative(self, env) ==
    sub_symbols(self, MultiplicativeForm(self), FormValues(self), self.symbol_dict, env)

\* The minimum form with the constant added as in the other forms.
MinimumForm_withConstant(self, env) ==
    EvalAdd(Expr("Min",
                 [j \in 1..self.num_inputs |->
                    Term(Indexed(self.symbol_dict.coefficient, j - 1),
                         Indexed(self.symbol_dict.inputs, j - 1),
                         Integer(1))],
                 Integer(1), self.symbol_dict.constant,
                 self.symbol_dict.dependent), env)

\* Min(*[coefficient[i] * inputs[i] ...]) - dependent; Min() is oo.
MinimumForm(self, env) ==
    EvalAdd(Expr("Min",
                 [j \in 1..self.num_inputs |->
                    Term(Indexed(self.symbol_dict.coefficient, j - 1),
                         Indexed(self.symbol_dict.inputs, j - 1),
                         Integer(1))],
                 Integer(1), Integer(0), self.symbol_dict.dependent), env)

minimum_function(self, env) ==
    sub_symbols(self, MinimumForm(self, env), FormValues(self), self.symbol_dict, env)

\* The exponent of ces is one new Symbol (created without real=True).
CesExponent(self) == Symbol(self.names.exponent_name, FALSE)

\* The CES form over the indexed exponents of the registry.
CesForm_indexedExponent(self) ==
    Expr("Sum", InputForm(self), CesExponent(self),
         self.symbol_dict.constant, self.symbol_dict.dependent)

CesForm(self) ==
    Expr("Sum",
         [j \in 1..self.num_inputs |->
            Term(Indexed(self.symbol_dict.coefficient, j - 1),
                 Indexed(self.symbol_dict.inputs, j - 1),
                 CesExponent(self))],
         CesExponent(self),
         self.symbol_dict.constant, self.symbol_dict.dependent)

CesValues(self) ==
    <<  <<self.symbol_dict.coefficient, self.coeff_values>>,
        <<CesExponent(self), self.exponent_values>>,
        <<self.symbol_dict.constant, self.constant_value>>,
        <<self.symbol_dict.dependent, self.dependent_value>>  >>

ces(self, env) ==
    sub_symbols(self, CesForm(self), CesValues(self),
                [self.symbol_dict EXCEPT !.exponent = CesExponent(self)], env)

(***************************************************************************)
(* Directives explored.  A tuple is a pattern of unset (None), keep        *)
(* symbolic ('symbol') and explicit positions; the explicit coefficient    *)
(* at index i is i + 2 and the explicit exponent at index i is i + 1.      *)
(* Coefficient tuples take every pattern of every length; exponent tuples  *)
(* are the all-explicit ones of every length.                              *)
(***************************************************************************)
\* Tuples of up to MaxInputs items with at most one None and at most one
\* 'symbol' among explicit values.
Patterns ==
    {pat \in UNION {[1..k -> {"none", "keep", "val"}] : k \in 0..MaxInputs} :
        /\ Cardinality({j \in DOMAIN pat : pat[j] = "none"}) <= 1
        /\ Cardinality({j \in DOMAIN pat : pat[j] = "keep"}) <= 1}

PatternTuple(pat, offset) ==
    PyTuple([k \in DOMAIN pat |->
        IF pat[k] = "none" THEN PyNone
        ELSE IF pat[k] = "keep" THEN KEEP
        ELSE PyInt(k + offset)])

CoeffDirectives ==
    {SYMBOLS, PyNone, PyInt(1)} \cup {PatternTuple(pat, 1) : pat \in Patterns}

ExponentDirectives ==
    {SYMBOLS, PyNone, PyInt(1), PyInt(2)}
        \cup {PatternTuple([j \in 1..k |-> "val"], 0) : k \in 0..MaxInputs}

DependentDirectives == {SYMBOLS, PyInt(1), PyTuple(<<PyInt(1), PyInt(2)>>)}

ConstantDirectives == {SYMBOLS, PyNone, PyTuple(<<PyInt(1), PyInt(2)>>)}

(***************************************************************************)
(* State: one BaseForms object, the outcome of the last operation on it,   *)
(* and the last sub_symbols call (function, dict before and after).        *)
(***************************************************************************)
VARIABLES obj, op, ret, call

vars == <<obj, op, ret, call>>

NoCall == [made |-> FALSE]

Call(func, given, r) ==
    [made |-> TRUE, func |-> func, given |-> given, left |-> r.left,
     outcome |-> r.outcome]

Op(name, n) == [name |-> name, num_inputs |-> n]

Init ==
    /\ obj = NoObject
    /\ op = Op("none", 0)
    /\ ret = NoOutcome
    /\ call = NoCall

\* obj = BaseForms(num_inputs=n, ...): base.py:138-189; op records the
\* operation and the num_inputs it was called with.
Construct ==
    /\ ~ obj.alive
    /\ \E n \in -1..MaxInputs, names \in NameSets,
          cv \in CoeffDirectives, ev \in ExponentDirectives,
          dv \in DependentDirectives, kv \in ConstantDirectives :
            LET r == NewBaseForms(n, names, cv, ev, dv, kv)
            IN  /\ obj' = IF r.status = "return" THEN r.value ELSE NoObject
                /\ ret' = r
                /\ op' = Op("init", n)
    /\ call' = NoCall

\* The library behaviours an operation on self can meet: a choice is drawn
\* only where the configured directives exercise it.
AddEnvsOf(self) ==
    {e \in AddEnvs :
        self.constant_value.t # "tuple" => e.tupleInAdd = "AttributeError"}

MinEnvsOf(self) == {e \in MinEnvs : self.num_inputs # 0 => e.realFinite}

PowEnvsOf(self) ==
    {e \in PowEnvs :
        /\ self.constant_value.t # "tuple" => e.tupleInAdd = "AttributeError"
        /\ self.exponent_values.t # "tuple" => e.tupleInPow = "AttributeError"}

\* A ces that puts its exponent symbol into the registry itself.
RegistryAfter_shared(self, name) ==
    IF name = "ces"
    THEN [self.symbol_dict EXCEPT !.exponent = CesExponent(self)]
    ELSE self.symbol_dict

\* The registry of self after the form operation name.  additive,
\* multiplicative and minimum_function only read it (base.py:265-393); ces
\* puts its own exponent symbol into cust_dict, a copy of the registry
\* (base.py:428-429), and hands the copy to sub_symbols.
RegistryAfter(self, name) == self.symbol_dict

\* A form operation returns (func_form_sub, self.symbol_dict); the
\* directives are read into a new dict (e.g. base.py:434-439) and no
\* attribute of self is assigned.
FormOp(name, func, values, r) ==
    /\ op' = Op(name, obj.num_inputs)
    /\ call' = Call(func, values, r)
    /\ obj' = [obj EXCEPT !.symbol_dict = RegistryAfter(obj, name)]
    /\ ret' = IF r.outcome.status = "return"
              THEN Return([function |-> r.outcome.value,
                           symbol_dict |-> RegistryAfter(obj, name)])
              ELSE r.outcome

Additive ==
    /\ obj.alive
    /\ \E env \in AddEnvsOf(obj) :
        FormOp("additive", AdditiveForm(obj), FormValues(obj), additive(obj, env))

Multiplicative ==
    /\ obj.alive
    /\ \E env \in AddEnvsOf(obj) :
        FormOp("multiplicative", MultiplicativeForm(obj), FormValues(obj),
               multiplicative(obj, env))

MinimumFunction ==
    /\ obj.alive
    /\ \E env \in MinEnvsOf(obj) :
        FormOp("minimum_function", MinimumForm(obj, env), FormValues(obj),
               minimum_function(obj, env))

Ces ==
    /\ obj.alive
    /\ \E env \in PowEnvsOf(obj) :
        FormOp("ces", CesForm(obj), CesValues(obj), ces(obj, env))

Next == Construct \/ Additive \/ Multiplicative \/ MinimumFunction \/ Ces

Spec == Init /\ [][Next]_vars


(***************************************************************************)
(* Construction alone: of a BaseForms object and of its specialization     *)
(* Input_Constraint.                                                       *)
(***************************************************************************)
\* The default names of Input_Constraint (constraint.py:63-67).
ConstraintNames ==
    [input_name |-> "x", coeff_name |-> "gamma", exponent_name |-> "rho",
     dependent_name |-> "M", constant_name |-> "C"]

\* Whole directives and explicit tuples for the coefficients or exponents
\* of an Input_Constraint; 'symbol' is its default.
ConstraintDirectives ==
    {SYMBOLS, KEEP, PyNone}
        \cup {PatternTuple([j \in 1..k |-> "val"], 0) : k \in 0..MaxInputs}

\* obj = Input_Constraint(num_inputs=n, ...): constraint.py:61-84; op
\* records the arguments as the attributes they would become.
ConstructInputConstraint ==
    /\ ~ obj.alive
    /\ op.name = "none"
    /\ \E n \in -1..MaxInputs, names \in NameSets \cup {ConstraintNames},
          cv \in ConstraintDirectives, ev \in ConstraintDirectives,
          dv \in {SYMBOLS, KEEP, PyInt(1)}, kv \in {SYMBOLS, KEEP, PyNone} :
            LET r == NewInputConstraint(n, names, cv, ev, dv, kv)
            IN  /\ obj' = IF r.status = "return" THEN r.value ELSE NoObject
                /\ ret' = r
                /\ op' = [name |-> "Input_Constraint", num_inputs |-> n,
                          config |-> BaseFormsObject(n, names, cv, ev, dv, kv)]
    /\ call' = NoCall

\* A run of construction alone attempts one construction.
ConstructBaseForms == op.name = "none" /\ Construct

NextNew == ConstructBaseForms \/ ConstructInputConstraint

SpecNew == Init /\ [][NextNew]_vars

(***************************************************************************)
(* Direct calls of sub_symbols (as in tests/test_base.py:test_sub_values): *)
(* a default BaseForms(num_inputs=n), a function and a dict are drawn,     *)
(* and the call is applied to them.                                        *)
(***************************************************************************)
\* Optional dict entries, in insertion order; <<>> is an absent key.
Entry(key, values) == {<<>>} \cup {<< <<key, v>> >> : v \in values}

InputDirectives ==
    {SYMBOLS, PyNone, PyInt(1)} \cup {PatternTuple(pat, 0) : pat \in Patterns}

\* Symbols that are not in the registry of a default object.
UnknownEntries ==
    {<<>>, << <<Symbol("z", FALSE), PyNone>> >>,
           << <<IndexedBase("x", FALSE), PyTuple(<<PyInt(1), PyInt(2)>>)>> >>}

Dicts(sd) ==
    {a \o b \o c \o d \o e \o f \o g :
        a \in Entry(sd.inputs, InputDirectives),
        b \in Entry(sd.coefficient, {PyNone, PyTuple(<<>>)}),
        c \in Entry(sd.exponent, {SYMBOLS, PyNone}),
        d \in Entry(sd.constant, {PyNone, PyTuple(<<PyInt(1), PyInt(2)>>)}),
        e \in Entry(sd.dependent, {PyInt(1), PyTuple(<<KEEP>>)}),
        f \in Entry(sd.i, {PyNone}),
        g \in UnknownEntries}

Funcs(self) == {AdditiveForm(self), MultiplicativeForm(self)}

DefaultObject(n) ==
    BaseFormsObject(n, DefaultNames, SYMBOLS, SYMBOLS, SYMBOLS, SYMBOLS)

Pending(func, given) ==
    [made |-> FALSE, func |-> func, given |-> given, left |-> given,
     outcome |-> NoOutcome]

InitSub ==
    /\ \E n \in 0..MaxInputs :
        /\ obj = DefaultObject(n)
        /\ \E func \in Funcs(obj), given \in Dicts(obj.symbol_dict) :
              call = Pending(func, given)
    /\ op = Op("init", obj.num_inputs)
    /\ ret = Return(obj)

SubEnvs == {e \in Envs : e.tupleInPow = "AttributeError" /\ e.realFinite}

\* A substitution in place: the expression handed in becomes the result.
LeftOfInputs_inPlace(symbol_dict, func, outcome) ==
    [symbol_dict |-> symbol_dict,
     func |-> IF outcome.status = "return" THEN outcome.value ELSE func]

\* The registry and the expression handed to sub_symbols, as the call
\* leaves them: symbol_dict is bound to a local name and only read
\* (base.py:218-225), and func.subs builds a new expression that is bound
\* to the local name func (base.py:257), whatever the outcome.
LeftOfInputs(symbol_dict, func, outcome) ==
    [symbol_dict |-> symbol_dict, func |-> func]

\* self.sub_symbols(func=..., symbol_values=...): base.py:195-259.
SubSymbolsCall ==
    /\ obj.alive
    /\ ~ call.made
    /\ \E env \in SubEnvs :
        LET r == sub_symbols(obj, call.func, call.given, obj.symbol_dict, env)
        IN  /\ ret' = r.outcome
            /\ call' = Call(LeftOfInputs(obj.symbol_dict, call.func, ret').func,
                            call.given, r)
            /\ obj' = [obj EXCEPT !.symbol_dict =
                          LeftOfInputs(obj.symbol_dict, call.func, ret').symbol_dict]
    /\ op' = Op("sub_symbols", obj.num_inputs)

NextSub == SubSymbolsCall

SpecSub == InitSub /\ [][NextSub]_vars


(***************************************************************************)
(* Utility (functional_forms/utility.py): a BaseForms object that stores   *)
(* one of the four forms, chosen by name, as self.function.                *)
(***************************************************************************)
\* _utils_ at utility.py:13.
utils == {"additive", "multiplicative", "minimum", "ces"}

\* The library behaviours the form chosen by func_form can meet.
EnvsOfForm(self, func_form) ==
    IF func_form \in {"additive", "multiplicative"} THEN AddEnvsOf(self)
    ELSE IF func_form = "minimum" THEN MinEnvsOf(self)
    ELSE PowEnvsOf(self)

\* A dispatcher that builds the additive form for 'minimum'.
func_form_dict_minimumAdditive(self, func_form, env) ==
    IF func_form = "multiplicative" THEN multiplicative(self, env)
    ELSE IF func_form = "ces" THEN ces(self, env)
    ELSE additive(self, env)

\* func_form_dict[func_form]() at utility.py:95-102.
func_form_dict(self, func_form, env) ==
    IF func_form = "additive" THEN additive(self, env)
    ELSE IF func_form = "multiplicative" THEN multiplicative(self, env)
    ELSE IF func_form = "minimum" THEN minimum_function(self, env)
    ELSE ces(self, env)

\* The attributes of a constructed Utility: those of BaseForms and
\* self.function (self.symbol_dict is assigned the registry it already is).
UtilityObject(self, function) ==
    [alive           |-> TRUE,
     num_inputs      |-> self.num_inputs,
     names           |-> self.names,
     coeff_values    |-> self.coeff_values,
     exponent_values |-> self.exponent_values,
     dependent_value |-> self.dependent_value,
     constant_value  |-> self.constant_value,
     symbol_dict     |-> self.symbol_dict,
     function        |-> function]

\* Utility(num_inputs=n, ..., func_form=func_form): utility.py:72-102.
Stored(self, built) ==
    IF built.status = "raise" THEN built
    ELSE Return(UtilityObject(self, built.value))

Dispatched(r, func_form, env) ==
    IF r.status = "raise" THEN r
    ELSE Stored(r.value, func_form_dict(r.value, func_form, env).outcome)

NewUtility(n, names, cv, ev, dv, kv, func_form, env) ==
    IF func_form \notin utils
    THEN Raise("Exception")
    ELSE Dispatched(NewBaseForms(n, names, cv, ev, dv, kv), func_form, env)

\* The default names of Utility (utility.py:74-79).
UtilityNames ==
    [input_name |-> "x", coeff_name |-> "beta", exponent_name |-> "alpha",
     dependent_name |-> "U", constant_name |-> "C"]

\* Whole directives and explicit tuples of every length up to MaxInputs.
ExplicitTuples(offset) ==
    {PatternTuple([j \in 1..k |-> "val"], offset) : k \in 0..MaxInputs}

SameTuples(v) == {PyTuple([j \in 1..k |-> PyInt(v)]) : k \in 1..MaxInputs}

UtilityCoeffs ==
    {SYMBOLS, PyNone, KEEP} \cup ExplicitTuples(1) \cup SameTuples(2)

UtilityExponents ==
    {SYMBOLS, PyNone, KEEP, PyInt(1), PyInt(2)}
        \cup ExplicitTuples(0) \cup SameTuples(2)

UtilityDependents == {SYMBOLS, KEEP, PyInt(3)}

UtilityConstants == {SYMBOLS, PyNone, KEEP}

FuncForms == utils \cup {"cobb-douglas"}

UtilityOp(n, func_form) ==
    [name |-> "Utility", num_inputs |-> n, func_form |-> func_form]

\* obj = Utility(num_inputs=n, ..., func_form=func_form).
ConstructUtility ==
    /\ ~ obj.alive
    /\ op.name = "none"
    /\ \E n \in -1..MaxInputs, cv \in UtilityCoeffs, ev \in UtilityExponents,
          dv \in UtilityDependents, kv \in UtilityConstants,
          func_form \in FuncForms :
        \E env \in EnvsOfForm(BaseFormsObject(n, UtilityNames, cv, ev, dv, kv),
                              func_form) :
            /\ ret' = NewUtility(n, UtilityNames, cv, ev, dv, kv, func_form, env)
            /\ obj' = IF ret'.status = "return" THEN ret'.value ELSE NoObject
            /\ op' = UtilityOp(n, func_form)
    /\ call' = NoCall

\* sp.solve(f, sym) for a form in which sym is the subtracted dependent or
\* does not occur: the list of solutions.
Solve(f, sym) ==
    IF f.dependent = sym THEN <<[f EXCEPT !.dependent = Integer(0)]>> ELSE <<>>

\* The library behaviours a query with these replacement values can meet.
QueryEnvs(values) ==
    {e \in Envs :
        /\ e.tupleInAdd = "AttributeError" /\ e.tupleInPow = "AttributeError"
        /\ e.realFinite
        /\ (\A v \in values : v # PyNone /\ v.t # "list") => e.noneNew = "dropped"}

\* get_utility that takes the whole stored function, unsolved.
get_utility_unsolved(self, input_values, constant, env) ==
    sub_symbols(self, self.function,
                << <<self.symbol_dict.inputs, input_values>>,
                   <<self.symbol_dict.constant, constant>> >>,
                self.symbol_dict, env).outcome

\* Utility.get_utility(input_values, constant): utility.py:104-143.
get_utility(self, input_values, constant, env) ==
    LET utility_expr == Solve(self.function, self.symbol_dict.dependent)
    IN  IF utility_expr = <<>>
        THEN Raise("IndexError")
        ELSE sub_symbols(self, utility_expr[1],
                         << <<self.symbol_dict.inputs, input_values>>,
                            <<self.symbol_dict.constant, constant>> >>,
                         self.symbol_dict, env).outcome

\* Input vectors of every length from 1 to MaxInputs, as tuples and as
\* lists: all ones, and 2, 3, ...
InputVectors ==
    UNION {{PyTuple(items), PyList(items)} :
            items \in UNION {{[j \in 1..k |-> PyInt(1)],
                              [j \in 1..k |-> PyInt(j + 1)]} : k \in 1..MaxInputs}}

\* A query is made on a constructed Utility whose function is finite.
CanQuery ==
    /\ obj.alive
    /\ op.name = "Utility"
    /\ ~ IsInfinite(obj.function)

GetUtility ==
    /\ CanQuery
    /\ \E input_values \in InputVectors, constant \in {PyInt(1), PyInt(-5)} :
        \E env \in QueryEnvs({input_values, constant}) :
            /\ ret' = get_utility(obj, input_values, constant, env)
            /\ op' = [name |-> "get_utility", num_inputs |-> obj.num_inputs,
                      input_values |-> input_values, constant |-> constant]
    /\ UNCHANGED <<obj, call>>

\* The first derivative factor * prod(terms) / over, which is what
\* d/dx (c * x ** e) = e * c * x ** e / x is for any e free of x.
Derivative(factor, terms, over) ==
    [t |-> "Derivative", factor |-> factor, terms |-> terms, over |-> over]

\* The terms of e in which the input is x.
TermsWith(e, x) == {j \in DOMAIN e.terms : e.terms[j].inp = x}

\* A derivative that does not bring the exponent down.
Diff_noFactor(e, x) ==
    IF TermsWith(e, x) = {} THEN Integer(0)
    ELSE LET j == CHOOSE j \in TermsWith(e, x) : TRUE
         IN  Derivative(Integer(1),
                        IF e.form = "Sum" THEN <<e.terms[j]>> ELSE e.terms, x)

\* sp.diff(e, x) for a sum or product of terms c * x_j ** e_j (root 1)
\* whose constant and dependent are free of x.
Diff(e, x) ==
    IF TermsWith(e, x) = {} THEN Integer(0)
    ELSE LET j == CHOOSE j \in TermsWith(e, x) : TRUE
         IN  Derivative(e.terms[j].exp,
                        IF e.form = "Sum" THEN <<e.terms[j]>> ELSE e.terms, x)

\* Utility.marginal_utility(indx, subs): utility.py:184-224.
Differentiated(self, utility_expr, indx) ==
    IF utility_expr.status = "raise" THEN utility_expr
    ELSE LET solved == Solve(utility_expr.value, self.symbol_dict.dependent)
         IN  IF solved = <<>> THEN Raise("IndexError")
             ELSE Return(Diff(solved[1], Indexed(self.symbol_dict.inputs, indx)))

marginal_utility(self, indx, subs, env) ==
    Differentiated(self,
                   sub_symbols(self, self.function, subs,
                               self.symbol_dict, env).outcome,
                   indx)

\* The subs arguments: the default {} and a dict that makes the
\* coefficients neutral.
MarginalSubs(self) == {<<>>, << <<self.symbol_dict.coefficient, PyNone>> >>}

\* The derivative is modelled for sums and products of powers.
CanDifferentiate ==
    /\ CanQuery
    /\ obj.function.form \in {"Sum", "Product"}
    /\ obj.function.root = Integer(1)

MarginalUtility ==
    /\ CanDifferentiate
    /\ \E indx \in 0..MaxInputs, subs \in MarginalSubs(obj) :
        \E env \in QueryEnvs({}) :
            /\ ret' = marginal_utility(obj, indx, subs, env)
            /\ op' = [name |-> "marginal_utility", num_inputs |-> obj.num_inputs,
                      indx |-> indx, subs |-> subs]
    /\ UNCHANGED <<obj, call>>

\* The dict display {k1: v1, k2: v2}: a repeated key keeps its first
\* position and takes the last value.
DictOf2(k1, v1, k2, v2) ==
    IF k1 = k2 THEN << <<k1, v2>> >> ELSE << <<k1, v1>>, <<k2, v2>> >>

\* get_indifference that leaves the dependent symbol alone.
get_indifference_constantOnly(self, constant, dependent, env) ==
    sub_symbols(self, self.function,
                << <<self.symbol_dict.constant, constant>> >>,
                self.symbol_dict, env).outcome

\* get_indifference that also makes the inputs neutral.
get_indifference_inputsNeutral(self, constant, dependent, env) ==
    sub_symbols(self, self.function,
                << <<self.symbol_dict.inputs, PyNone>> >>
                  \o DictOf2(self.symbol_dict.constant, constant,
                             self.symbol_dict.dependent, dependent),
                self.symbol_dict, env).outcome

\* Utility.get_indifference(constant, dependent): utility.py:145-182.
get_indifference(self, constant, dependent, env) ==
    sub_symbols(self, self.function,
                DictOf2(self.symbol_dict.constant, constant,
                        self.symbol_dict.dependent, dependent),
                self.symbol_dict, env).outcome

\* The (constant, dependent) arguments: the defaults and two numeric pairs.
IndifferenceArgs ==
    {<<PyNone, PyNone>>, <<PyInt(5), PyInt(3)>>, <<PyInt(-5), PyInt(-3)>>,
     <<PyInt(5), PyNone>>}

GetIndifference ==
    /\ CanQuery
    /\ \E a \in IndifferenceArgs :
        \E env \in QueryEnvs({}) :
            /\ ret' = get_indifference(obj, a[1], a[2], env)
            /\ op' = [name |-> "get_indifference", num_inputs |-> obj.num_inputs,
                      constant |-> a[1], dependent |-> a[2]]
    /\ UNCHANGED <<obj, call>>

(***************************************************************************)
(* utils/solvers.py, applied to a Utility.                                 *)
(***************************************************************************)
PyBool(b) == [t |-> "bool", v |-> b]

\* sp.diff(e, p, c) == 0 for a sum or product of terms coef * x_j ** e_j
\* (root 1), each input in at most one term: a term contributes to an own
\* second partial unless its exponent is 0 or 1; a cross partial of a sum is
\* zero, that of a product is zero only if one of the two inputs is absent.
SecondPartialIsZero(e, p, c) ==
    LET flat(x) == \A j \in TermsWith(e, x) :
                        e.terms[j].exp \in {Integer(0), Integer(1)}
    IN  IF e.form = "Sum"
        THEN IF p # c THEN TRUE
             ELSE \A j \in TermsWith(e, p) :
                     e.terms[j].coef = Integer(0) \/ flat(p)
        ELSE IF \E j \in DOMAIN e.terms : e.terms[j].coef = Integer(0)
        THEN TRUE
        ELSE IF p = c THEN flat(p)
        ELSE TermsWith(e, p) = {} \/ TermsWith(e, c) = {}

\* vars at solvers.py:18.
InputVars(func) ==
    [j \in 1..func.num_inputs |-> Indexed(func.symbol_dict.inputs, j - 1)]

\* linear_vars after the loops at solvers.py:20-26: one entry per ordered
\* pair (p, c), p outermost.
LinearVars(func) ==
    LET inputs == InputVars(func)
        n == func.num_inputs
    IN  [k \in 1..(n * n) |->
            SecondPartialIsZero(func.function,
                                inputs[((k - 1) \div n) + 1],
                                inputs[((k - 1) % n) + 1])]

\* is_linear that answers from the first pair examined.
is_linear_firstPair(func, quasi) ==
    LET linear_vars == LinearVars(func)
    IN  IF ~ quasi
        THEN IF linear_vars = <<>> THEN TRUE ELSE linear_vars[1]
        ELSE TRUE \in Range(linear_vars) /\ FALSE \in Range(linear_vars)

\* is_linear(func, quasi): solvers.py:3-39.
is_linear(func, quasi) ==
    LET linear_vars == LinearVars(func)
    IN  IF ~ quasi
        THEN \A k \in DOMAIN linear_vars : linear_vars[k]
        ELSE TRUE \in Range(linear_vars) /\ FALSE \in Range(linear_vars)

IsLinear ==
    /\ CanDifferentiate
    /\ \E quasi \in BOOLEAN :
            /\ ret' = Return(PyBool(is_linear(obj, quasi)))
            /\ op' = [name |-> "is_linear", num_inputs |-> obj.num_inputs,
                      quasi |-> quasi]
    /\ UNCHANGED <<obj, call>>

\* l = sp.symbols('lambda', real=True, nonnegative=True) at solvers.py:64
\* (nonnegative shows in the solutions solve keeps, see FirstOrderSolution).
Lambda == Symbol("lambda", TRUE)

\* vars at solvers.py:65.
LagrangeVars(objective) == InputVars(objective) \o <<Lambda>>

\* sp.diff(e, x) for a sum whose terms are flat in x (exponent 1): the
\* coefficient of x, 0 if x is absent.
Partial(e, x) ==
    IF TermsWith(e, x) = {} THEN Integer(0)
    ELSE e.terms[CHOOSE j \in TermsWith(e, x) : TRUE].coef

\* The quotient num / den of two leaves.
Quotient(num, den) == [t |-> "Quotient", num |-> num, den |-> den]

\* sp.solve(foc[var], l) at solvers.py:102 for foc[var] = Eq(mu - l*price, 0):
\* no solution when l is absent from the condition (price 0, which is also
\* the case of foc[lambda]) or when the root is a negative number, which l
\* cannot be; otherwise the one root mu / price.
FirstOrderSolution(mu, price) ==
    IF price = Integer(0) THEN <<>>
    ELSE IF mu.t = "Integer" /\ price.t = "Integer" /\ mu.v * price.v < 0
    THEN <<>>
    ELSE <<Quotient(mu, price)>>

\* u_p_d after the loop at solvers.py:99-105, as the sequence of its
\* (key, value) pairs in insertion order.
UtilityPerDollar(objective, constraint, o) ==
    LET all == LagrangeVars(objective)
        sol(var) == IF var = Lambda THEN <<>>
                    ELSE FirstOrderSolution(Partial(o, var),
                                            Partial(constraint.function, var))
        kept == SelectSeq(all, LAMBDA var : Len(sol(var)) = 1)
    IN  [k \in DOMAIN kept |-> <<kept[k], sol(kept[k])[1]>>]

\* x.is_number for a utility per dollar.
IsNumberQuotient(q) == q.num.t = "Integer" /\ q.den.t = "Integer"

\* a < b for two numeric quotients.
QuotientLess(a, b) ==
    a.num.v * a.den.v * b.den.v * b.den.v < b.num.v * b.den.v * a.den.v * a.den.v

\* A max that keeps the last of several maximal keys.
MaxKey_last(u_p_d) ==
    LET k == CHOOSE k \in DOMAIN u_p_d :
                /\ \A j \in DOMAIN u_p_d : ~ QuotientLess(u_p_d[k][2], u_p_d[j][2])
                /\ \A j \in (k + 1)..Len(u_p_d) :
                        QuotientLess(u_p_d[j][2], u_p_d[k][2])
    IN  u_p_d[k][1]

\* max(u_p_d, key=u_p_d.get) at solvers.py:114: the first key whose value
\* no other value exceeds (ValueError on an empty dict is handled by the
\* caller).
MaxKey(u_p_d) ==
    LET k == CHOOSE k \in DOMAIN u_p_d :
                /\ \A j \in DOMAIN u_p_d : ~ QuotientLess(u_p_d[k][2], u_p_d[j][2])
                /\ \A j \in 1..(k - 1) : QuotientLess(u_p_d[j][2], u_p_d[k][2])
    IN  u_p_d[k][1]

\* The quotient at solvers.py:123-126: the dependent symbol of the
\* constraint, or its dependent_value, divided by var; a dependent_value
\* that is neither 'symbols' nor a number cannot be divided.
IncomeOver(constraint, var) ==
    IF constraint.dependent_value = SYMBOLS
    THEN Return(Quotient(constraint.symbol_dict.dependent, var))
    ELSE IF constraint.dependent_value.t = "int"
    THEN Return(Quotient(Integer(constraint.dependent_value.v), var))
    ELSE Raise("TypeError")

PyDict(items) == [t |-> "dict", items |-> items]

\* The arguments handed to sp.Piecewise at solvers.py:141-143: the
\* (value, condition) pairs, the condition u >= Max(*values) kept as built.
Piecewise(value, u, values) ==
    [t |-> "Piecewise",
     branches |-> << <<value, [t |-> "Ge", lhs |-> u,
                               rhs |-> [t |-> "Max", args |-> values]]>>,
                     <<PyInt(0), TRUE>> >>]

\* The branch of a linear objective at solvers.py:92-145, for a constraint
\* that is a sum flat in every input; o is the objective solved for its
\* dependent symbol.
CornerSolution(objective, constraint, o) ==
        LET u_p_d == UtilityPerDollar(objective, constraint, o)
            values == {u_p_d[k][2] : k \in DOMAIN u_p_d}
        IN  IF \A k \in DOMAIN u_p_d : IsNumberQuotient(u_p_d[k][2])
            THEN IF u_p_d = <<>> THEN Raise("ValueError")
                 ELSE LET max_u_p_d == MaxKey(u_p_d)
                          best == IncomeOver(constraint, max_u_p_d)
                      IN  IF best.status = "raise" THEN best
                          ELSE Return(PyDict(
                                 [k \in DOMAIN u_p_d |->
                                    <<u_p_d[k][1],
                                      IF u_p_d[k][1] = max_u_p_d
                                      THEN best.value ELSE PyInt(0)>>]))
            ELSE Return(PyDict(
                   [k \in DOMAIN u_p_d |->
                      <<u_p_d[k][1],
                        Piecewise(Quotient(constraint.symbol_dict.dependent,
                                           u_p_d[k][1]),
                                  u_p_d[k][2], values)>>]))

\* sp.solve(foc, tuple(vars), dict=True) at solvers.py:151.  foc is the
\* dict built at solvers.py:80-82 (variable -> condition), not the list of
\* its conditions: solve does not iterate over a dict, it sympifies it
\* to one Dict object and fails at the first expression method it calls on
\* it.  Which method that is depends on the SymPy release, so the error is
\* drawn from DictSolveErrors; it is never NotImplementedError.
DictSolveErrors == {"AttributeError", "TypeError"}

SolveConditions(err) == Raise(err)

\* The try statement at solvers.py:150-158: the first solution is returned;
\* NotImplementedError is caught, two messages are printed and the function
\* falls off its end (None); any other exception leaves the function.
Simultaneous(err) ==
    LET found == SolveConditions(err)
    IN  IF found.status = "raise"
        THEN IF found.exc = "NotImplementedError"
             THEN Return(PyNone) ELSE found
        ELSE IF found.value = <<>> THEN Raise("IndexError")
        ELSE Return(found.value[1])

\* lagrangian(objective, constraint): solvers.py:41-158.
lagrangian(objective, constraint, err) ==
    LET solved == Solve(objective.function, objective.symbol_dict.dependent)
    IN  IF solved = <<>> THEN Raise("IndexError")
        ELSE IF is_linear(objective, FALSE)
        THEN CornerSolution(objective, constraint, solved[1])
        ELSE Simultaneous(err)

\* The prices of a budget constraint over n goods: symbolic, 2, 3, ..., or
\* all 2.
BudgetPrices(n) ==
    {SYMBOLS, PatternTuple([j \in 1..n |-> "val"], 1),
     PyTuple([j \in 1..n |-> PyInt(2)])}

\* The income of a budget constraint: symbolic, 12, or None.
BudgetIncomes == {SYMBOLS, PyInt(12), PyNone}

\* The budget constraints over n goods: Input_Constraint cannot be
\* constructed (constraint.py:84), so the constraint is an additive form
\* under the names of Input_Constraint, with exponents 1.
BudgetConstraints(n) ==
    {NewUtility(n, ConstraintNames, cv, PyNone, dv, SYMBOLS, "additive",
                CHOOSE env \in AddEnvs : env.tupleInAdd = "AttributeError").value :
        cv \in BudgetPrices(n), dv \in BudgetIncomes}

\* The error of the solver is drawn only where the branch that calls it is
\* taken.
DictSolveErrorsOf(objective) ==
    IF is_linear(objective, FALSE)
    THEN {CHOOSE err \in DictSolveErrors : TRUE} ELSE DictSolveErrors

Lagrangian ==
    /\ CanDifferentiate
    /\ \E constraint \in BudgetConstraints(obj.num_inputs),
          err \in DictSolveErrorsOf(obj) :
            /\ ret' = lagrangian(obj, constraint, err)
            /\ op' = [name |-> "lagrangian", num_inputs |-> obj.num_inputs,
                      constraint |-> constraint]
    /\ UNCHANGED <<obj, call>>

NextUtility ==
    \/ ConstructUtility
    \/ GetUtility
    \/ MarginalUtility
    \/ GetIndifference
    \/ IsLinear
    \/ Lagrangian

SpecUtility == Init /\ [][NextUtility]_vars

(***************************************************************************)
(* Consumer (agents/consumer.py).  A consumer is built from a Utility and  *)
(* an Input_Constraint and caches the allocation of maximize_utility in    *)
(* opt_values_dict.                                                        *)
(***************************************************************************)
\* The names Consumer.__init__ passes to Input_Constraint at
\* consumer.py:91-96, the others being its defaults.
BudgetNames ==
    [input_name |-> "x", coeff_name |-> "p_", exponent_name |-> "rho",
     dependent_name |-> "M", constant_name |-> "B"]

\* self after consumer.py:81-105, or the exception that ends __init__:
\* that of Utility, that of Input_Constraint, or the AttributeError of
\* self.utility.symboldict at consumer.py:101 (a Utility has symbol_dict).
ConsumerObject(num_goods, utility, constraint) ==
    IF utility.status = "raise" THEN utility
    ELSE IF constraint.status = "raise" THEN constraint
    ELSE Raise("AttributeError")

\* Consumer(num_goods, util_form): consumer.py:61-105.
NewConsumer(num_goods, util_form, env) ==
    ConsumerObject(num_goods,
        NewUtility(num_goods, UtilityNames, SYMBOLS, SYMBOLS, SYMBOLS, SYMBOLS,
                   util_form, env),
        NewInputConstraint(num_goods, BudgetNames, KEEP, PyNone, KEEP, KEEP))

\* raise AttributeError("Run max_utility() first.") at consumer.py:184-185
\* and 251-252.
NotSolved ==
    [status |-> "raise", exc |-> "AttributeError",
     message |-> "Run max_utility() first."]

\* self.maximize_utility(): consumer.py:107-160.  The first statement reads
\* self.utility.symboldict (line 130), which a Utility does not have, so
\* line 160 never stores an allocation.  The result is the outcome and self
\* after the call.
maximize_utility(self) == [outcome |-> Raise("AttributeError"), self |-> self]

\* consumer.utility = Utility(...): the class has no method that replaces the
\* utility or the constraint and defines no property or __setattr__, so a
\* reconfiguration is an attribute assignment that leaves opt_values_dict.
Reconfigured(self, utility) == [self EXCEPT !.utility = utility]

\* self.get_demand(indx): consumer.py:162-197.
get_demand(self, indx) ==
    IF self.opt_values_dict = <<>> THEN NotSolved
    ELSE Raise("AttributeError")

\* self.get_elasticity(input_indx, var, var_indx): consumer.py:199-280.
get_elasticity(self, input_indx, var, var_indx) ==
    IF self.opt_values_dict = <<>> THEN NotSolved
    ELSE IF var \notin self.sym_str_dict
    THEN [status |-> "raise", exc |-> "AttributeError",
          message |-> "Symbol not in symbol dictionary."]
    ELSE get_demand(self, input_indx)

UtilForms == FuncForms \cup {"quasi-linear"}

ConsumerEnvs(num_goods, util_form) ==
    EnvsOfForm(BaseFormsObject(num_goods, UtilityNames,
                               SYMBOLS, SYMBOLS, SYMBOLS, SYMBOLS), util_form)

\* A run is a caller's straight line of statements on one name, as in the
\* examples of the docstrings.  op holds the last statement of the run, the
\* arguments of the constructor, whether maximize_utility and a
\* reconfiguration are among the statements so far, and whether the run has
\* ended: an exception outside a try statement ends it, ret keeps that
\* exception and the statements that follow in the text are not executed.

\* consumer = Consumer(num_goods, util_form): consumer.py:56.
ConstructConsumer ==
    /\ op.name = "none"
    /\ \E num_goods \in -1..MaxInputs, util_form \in UtilForms :
        \E env \in ConsumerEnvs(num_goods, util_form) :
            /\ ret' = NewConsumer(num_goods, util_form, env)
            /\ obj' = IF ret'.status = "return" THEN ret'.value ELSE NoObject
            /\ op' = [name |-> "Consumer", num_goods |-> num_goods,
                      util_form |-> util_form, maximized |-> FALSE,
                      reconfigured |-> FALSE, ended |-> ret'.status = "raise"]
    /\ call' = NoCall

\* try: consumer.maximize_utility() / except: pass (the call of
\* consumer.py:57, its failure passed over).
MaximizeUtility ==
    /\ op.name = "Consumer"
    /\ ret' = IF op.ended THEN ret ELSE maximize_utility(obj).outcome
    /\ obj' = IF op.ended THEN obj ELSE maximize_utility(obj).self
    /\ op' = [op EXCEPT !.name = "maximize_utility", !.maximized = TRUE]
    /\ call' = NoCall

\* consumer.utility = Utility(...) with the arguments of the constructor.
Reconfigure ==
    /\ op.name \in {"Consumer", "maximize_utility"}
    /\ ret' = IF op.ended THEN ret ELSE Return(PyNone)
    /\ obj' = IF op.ended THEN obj ELSE Reconfigured(obj, obj.utility)
    /\ op' = [op EXCEPT !.name = "reconfigure", !.reconfigured = TRUE]
    /\ call' = NoCall

Preparations == {"Consumer", "maximize_utility", "reconfigure"}

\* consumer.get_demand(indx): the example at consumer.py:179-181.
GetDemand ==
    /\ op.name \in Preparations
    /\ \E indx \in 0..MaxInputs :
            /\ ret' = IF op.ended THEN ret ELSE get_demand(obj, indx)
            /\ op' = [name |-> "get_demand", num_goods |-> op.num_goods,
                      util_form |-> op.util_form, maximized |-> op.maximized,
                      reconfigured |-> op.reconfigured,
                      ended |-> op.ended \/ ret'.status = "raise",
                      indx |-> indx]
    /\ UNCHANGED <<obj, call>>

\* consumer.get_elasticity(input_indx, var): the examples at
\* consumer.py:228-247.
GetElasticity ==
    /\ op.name \in Preparations
    /\ \E input_indx \in 0..MaxInputs, var \in {"p_", "q"} :
            /\ ret' = IF op.ended THEN ret
                      ELSE get_elasticity(obj, input_indx, var, 0)
            /\ op' = [name |-> "get_elasticity", num_goods |-> op.num_goods,
                      util_form |-> op.util_form, maximized |-> op.maximized,
                      reconfigured |-> op.reconfigured,
                      ended |-> op.ended \/ ret'.status = "raise",
                      indx |-> input_indx, var |-> var]
    /\ UNCHANGED <<obj, call>>

NextConsumer ==
    \/ ConstructConsumer
    \/ MaximizeUtility
    \/ Reconfigure
    \/ GetDemand
    \/ GetElasticity

SpecConsumer == Init /\ [][NextConsumer]_vars

(***************************************************************************)
(* Properties.                                                             *)
(***************************************************************************)
DictGet(d, key) == (CHOOSE p \in Range(d) : p[1] = key)[2]

HasUnknownKey == ~ (DictKeys(call.given) \subseteq Range(obj.symbol_dict))

Points == {1, 2}

Assign(k, leaf) ==
    IF leaf.t = "Integer" THEN leaf.v
    ELSE IF leaf.t = "Indexed"
    THEN 2 + ((leaf.i + k + NameRank(leaf.base.name)) % 2)
    ELSE 2 + ((k + NameRank(leaf.name)) % 3)

RECURSIVE SumOf(_), ProductOf(_), MinOf(_)
SumOf(seq) == IF seq = <<>> THEN 0 ELSE seq[1] + SumOf(Tail(seq))
ProductOf(seq) == IF seq = <<>> THEN 1 ELSE seq[1] * ProductOf(Tail(seq))
MinOf(seq) ==
    IF Len(seq) = 1 THEN seq[1]
    ELSE LET m == MinOf(Tail(seq)) IN IF seq[1] <= m THEN seq[1] ELSE m

\* The denotation: comb ** (1/root) + rest, or infinite.
Value(e, val(_)) ==
    LET tv == [j \in DOMAIN e.terms |->
                  val(e.terms[j].coef)
                    * IPow(val(e.terms[j].inp), val(e.terms[j].exp))]
    IN  [inf  |-> IsInfinite(e),
         comb |-> IF e.form = "Sum" THEN SumOf(tv)
                  ELSE IF e.form = "Product" THEN ProductOf(tv)
                  ELSE IF tv = <<>> THEN 0 ELSE MinOf(tv),
         root |-> val(e.root),
         rest |-> val(e.constant) - val(e.dependent)]

Leaves(e) ==
    UNION {{e.terms[j].coef, e.terms[j].inp, e.terms[j].exp} : j \in DOMAIN e.terms}
        \cup {e.root, e.constant, e.dependent}

\* The symbol (scalar, or base of an indexed element) of a leaf.
Occurs(sym, e) ==
    \E leaf \in Leaves(e) :
        \/ leaf = sym
        \/ leaf.t = "Indexed" /\ leaf.base = sym

IsRole(sym) ==
    sym \in {obj.symbol_dict.inputs, obj.symbol_dict.coefficient,
             obj.symbol_dict.exponent, obj.symbol_dict.constant,
             obj.symbol_dict.dependent}

NeutralKeys(d) == {p[1] : p \in {q \in Range(d) : q[2] = PyNone}}

SymbolicKeys(d) == {p[1] : p \in {q \in Range(d) : q[2] = SYMBOLS}}

\* A sample point with the symbols of ones sent to 1.
AssignOnes(k, leaf, ones) ==
    IF leaf \in ones \/ (leaf.t = "Indexed" /\ leaf.base \in ones)
    THEN 1 ELSE Assign(k, leaf)

\* C2: a symbolic directive is dropped and changes nothing (a dict of only
\* symbolic directives, or an empty one, returns the function itself); a
\* None directive becomes the tuple of num_inputs ones for a family and 1
\* for a scalar, and the result is the function with those symbols at 1.
C2_SymbolicNoOpNeutralOnes ==
    (call.made /\ DictKeys(call.given) \subseteq {k \in Range(obj.symbol_dict) : IsRole(k)}
               /\ call.outcome # Raise("TypeError")) =>
        /\ \A key \in SymbolicKeys(call.given) : key \notin DictKeys(call.left)
        /\ \A key \in NeutralKeys(call.given) :
              DictGet(call.left, key) =
                 IF key.t = "IndexedBase"
                 THEN PyTuple([j \in 1..obj.num_inputs |-> PyInt(1)])
                 ELSE PyInt(1)
        /\ (DictKeys(call.given) = SymbolicKeys(call.given)) =>
              call.outcome = Return(call.func)
        /\ (DictKeys(call.given) = SymbolicKeys(call.given) \cup NeutralKeys(call.given)) =>
              /\ call.outcome.status = "return"
              /\ \A key \in NeutralKeys(call.given) :
                    ~ Occurs(key, call.outcome.value)
              /\ \A k \in Points :
                    Value(call.outcome.value, LAMBDA leaf : Assign(k, leaf))
                      = Value(call.func,
                              LAMBDA leaf : AssignOnes(k, leaf, NeutralKeys(call.given)))

\* A family and a scalar with None next to a symbolic directive.
C2_Witness ==
    /\ call.made
    /\ obj.num_inputs = MaxInputs
    /\ call.given = << <<obj.symbol_dict.inputs, PyNone>>,
                       <<obj.symbol_dict.exponent, SYMBOLS>>,
                       <<obj.symbol_dict.constant, PyNone>> >>
    /\ call.outcome.status = "return"
    /\ Occurs(obj.symbol_dict.coefficient, call.outcome.value)


FormOps == {"additive", "multiplicative", "minimum_function", "ces"}

\* What a tuple position stands for: None is 1, 'symbol' is the family's
\* own element at that index, anything else is the value itself.
PositionLeaf(item, family, i) ==
    IF item = PyNone THEN Integer(1)
    ELSE IF item = KEEP THEN Indexed(family, i)
    ELSE Integer(item.v)

\* C3: a tuple directive for a family is resolved position by position,
\* each position on its own: None gives 1, 'symbol' leaves the family's
\* element of that index, a value gives that value; also for tuples that
\* hold both None and 'symbol'.
C3_PartialTuplePerPosition ==
    (/\ op.name \in FormOps
     /\ obj.coeff_values.t = "tuple"
     /\ Len(obj.coeff_values.items) = obj.num_inputs
     /\ ret.status = "return") =>
        \A j \in 1..obj.num_inputs :
            ret.value.function.terms[j].coef =
                PositionLeaf(obj.coeff_values.items[j],
                             obj.symbol_dict.coefficient, j - 1)


\* The places of an expression where a leaf stands.
Positions(e) ==
    ({"coef", "inp", "exp"} \X DOMAIN e.terms)
        \cup {<<"root", 0>>, <<"constant", 0>>, <<"dependent", 0>>}

LeafAt(e, p) ==
    IF p[1] = "coef" THEN e.terms[p[2]].coef
    ELSE IF p[1] = "inp" THEN e.terms[p[2]].inp
    ELSE IF p[1] = "exp" THEN e.terms[p[2]].exp
    ELSE IF p[1] = "root" THEN e.root
    ELSE IF p[1] = "constant" THEN e.constant
    ELSE e.dependent

Belongs(leaf, sym) == leaf = sym \/ (leaf.t = "Indexed" /\ leaf.base = sym)

IsExplicitFull(key, value) ==
    IF key.t = "IndexedBase"
    THEN /\ value.t = "tuple"
         /\ Len(value.items) = obj.num_inputs
         /\ \A j \in DOMAIN value.items : value.items[j].t = "int"
    ELSE value.t = "int"

NoFreeOccurrence ==
    \A p \in Range(call.given) :
        (p[2] = PyNone \/ IsExplicitFull(p[1], p[2])) =>
            ~ Occurs(p[1], call.outcome.value)

\* C4 as claimed: after a successful call no symbol with a neutral or
\* explicit-full directive occurs in the result, and a symbol with a
\* symbolic directive stands in the result wherever it stood in the
\* function.
C4_OutputGuarantee ==
    (call.made /\ call.outcome.status = "return") =>
        /\ NoFreeOccurrence
        /\ \A key \in SymbolicKeys(call.given) :
              \A p \in Positions(call.func) :
                  Belongs(LeafAt(call.func, p), key) =>
                      LeafAt(call.outcome.value, p) = LeafAt(call.func, p)

\* The power inp ** exp of term j was evaluated away (the base became 1)
\* because another, non-symbolic directive replaced the other leaf.
PowerCollapsed(p) ==
    /\ p[1] \in {"inp", "exp"}
    /\ call.outcome.value.terms[p[2]].inp = Integer(1)
    /\ call.outcome.value.terms[p[2]].exp = Integer(1)
    /\ LET other == IF p[1] = "exp" THEN call.func.terms[p[2]].inp
                    ELSE call.func.terms[p[2]].exp
       IN  \E q \in Range(call.given) :
              q[2] # SYMBOLS /\ Belongs(other, q[1])

\* C4 as amended: a symbol with a symbolic directive is never replaced;
\* it stands in the result wherever it stood in the function, except in a
\* power that automatic evaluation removed after another symbol of that
\* power was replaced (1 ** alpha[i] is 1).
C4_OutputGuaranteeAmended ==
    (call.made /\ call.outcome.status = "return") =>
        /\ NoFreeOccurrence
        /\ \A key \in SymbolicKeys(call.given) :
              \A p \in Positions(call.func) :
                  Belongs(LeafAt(call.func, p), key) =>
                      \/ LeafAt(call.outcome.value, p) = LeafAt(call.func, p)
                      \/ PowerCollapsed(p)

\* Explicit-full inputs are gone and the symbolic exponents are still there.
C4_Witness ==
    /\ call.made
    /\ call.outcome.status = "return"
    /\ obj.num_inputs = MaxInputs
    /\ \E p \in Range(call.given) :
          p[1] = obj.symbol_dict.inputs /\ IsExplicitFull(p[1], p[2])
    /\ obj.symbol_dict.exponent \in SymbolicKeys(call.given)
    /\ Occurs(obj.symbol_dict.exponent, call.outcome.value)
    /\ ~ Occurs(obj.symbol_dict.inputs, call.outcome.value)


(***************************************************************************)
(* What the forms are to return, written from the directives.              *)
(***************************************************************************)
WellFormedFamily(value) ==
    value = SYMBOLS \/ value = PyNone
        \/ IsExplicitFull(obj.symbol_dict.coefficient, value)

WellFormedScalar(value) == value = SYMBOLS \/ value = PyNone \/ value.t = "int"

FamilyLeaf(value, family, i) ==
    IF value = SYMBOLS THEN Indexed(family, i)
    ELSE IF value = PyNone THEN Integer(1)
    ELSE Integer(value.items[i + 1].v)

ScalarLeaf(value, sym) ==
    IF value = SYMBOLS THEN sym
    ELSE IF value = PyNone THEN Integer(1)
    ELSE Integer(value.v)

X(i) == Indexed(obj.symbol_dict.inputs, i)

ExpectedPolynomial(form) ==
    Expr(form,
         [j \in 1..obj.num_inputs |->
            Term(FamilyLeaf(obj.coeff_values, obj.symbol_dict.coefficient, j - 1),
                 X(j - 1),
                 FamilyLeaf(obj.exponent_values, obj.symbol_dict.exponent, j - 1))],
         Integer(1),
         ScalarLeaf(obj.constant_value, obj.symbol_dict.constant),
         ScalarLeaf(obj.dependent_value, obj.symbol_dict.dependent))

\* coefficients (2, 3), exponents (1, 2), dependent 1, symbolic constant.
IsRegressionCase ==
    /\ obj.num_inputs = 2
    /\ obj.coeff_values = PyTuple(<<PyInt(2), PyInt(3)>>)
    /\ obj.exponent_values = PyTuple(<<PyInt(1), PyInt(2)>>)
    /\ obj.dependent_value = PyInt(1)
    /\ obj.constant_value = SYMBOLS

\* C5: for num_inputs >= 1 and symbolic, neutral or explicit-full
\* directives, additive returns sum_i(beta_i * x_i ** alpha_i) + C - Y and
\* multiplicative the product, each role replaced as its directive says
\* and the inputs symbolic; (2, 3), (1, 2), dependent 1 give
\* c + 2*x[0] + 3*x[1]**2 - 1 and c + 6*x[0]*x[1]**2 - 1; neutral
\* coefficients and exponents leave sum_i(x_i) and prod_i(x_i).
C5_AdditiveMultiplicative ==
    (/\ op.name \in {"additive", "multiplicative"}
     /\ obj.num_inputs >= 1
     /\ WellFormedFamily(obj.coeff_values)
     /\ WellFormedFamily(obj.exponent_values)
     /\ WellFormedScalar(obj.constant_value)
     /\ WellFormedScalar(obj.dependent_value)) =>
        LET form == IF op.name = "additive" THEN "Sum" ELSE "Product"
            tv(k) == [j \in 1..obj.num_inputs |-> Assign(k, X(j - 1))]
        IN  /\ ret = Return([function |-> ExpectedPolynomial(form),
                             symbol_dict |-> obj.symbol_dict])
            /\ IsRegressionCase =>
                 \A k \in Points :
                    LET v == Value(ret.value.function, LAMBDA leaf : Assign(k, leaf))
                    IN  /\ v.comb = IF op.name = "additive"
                                    THEN 2 * Assign(k, X(0)) + 3 * IPow(Assign(k, X(1)), 2)
                                    ELSE 6 * Assign(k, X(0)) * IPow(Assign(k, X(1)), 2)
                        /\ v.rest = Assign(k, obj.symbol_dict.constant) - 1
                        /\ v.root = 1 /\ ~ v.inf
            /\ (obj.coeff_values = PyNone /\ obj.exponent_values = PyNone) =>
                 \A k \in Points :
                    Value(ret.value.function, LAMBDA leaf : Assign(k, leaf)).comb
                       = IF op.name = "additive" THEN SumOf(tv(k))
                         ELSE ProductOf(tv(k))

\* The multiplicative regression case has been built.
C5_Witness ==
    /\ op.name = "multiplicative"
    /\ IsRegressionCase
    /\ ret.status = "return"
    /\ ret.value.function.form = "Product"

\* C6: with num_inputs = 0, empty-tuple coefficients and exponents (and
\* symbolic constant and dependent) additive returns exactly C - Y and
\* multiplicative exactly C - Y + 1; neither raises.
C6_ZeroInputs ==
    (/\ op.name \in {"additive", "multiplicative"}
     /\ obj.num_inputs = 0
     /\ obj.coeff_values = PyTuple(<<>>)
     /\ obj.exponent_values = PyTuple(<<>>)
     /\ obj.constant_value = SYMBOLS
     /\ obj.dependent_value = SYMBOLS) =>
        /\ ret.status = "return"
        /\ Leaves(ret.value.function)
             = {Integer(1), obj.symbol_dict.constant, obj.symbol_dict.dependent}
        /\ ret.value.function.constant = obj.symbol_dict.constant
        /\ ret.value.function.dependent = obj.symbol_dict.dependent
        /\ \A k \in Points :
              Value(ret.value.function, LAMBDA leaf : Assign(k, leaf))
                = [inf  |-> FALSE,
                   comb |-> IF op.name = "additive" THEN 0 ELSE 1,
                   root |-> 1,
                   rest |-> Assign(k, obj.symbol_dict.constant)
                              - Assign(k, obj.symbol_dict.dependent)]

\* multiplicative() of an object without inputs has returned.
C6_Witness ==
    /\ op.name = "multiplicative"
    /\ obj.num_inputs = 0
    /\ obj.coeff_values = PyTuple(<<>>)
    /\ obj.exponent_values = PyTuple(<<>>)
    /\ obj.constant_value = SYMBOLS
    /\ obj.dependent_value = SYMBOLS
    /\ ret.status = "return"

C7_WitnessInputs ==
    /\ op.name = "minimum_function"
    /\ obj.num_inputs = 2
    /\ obj.coeff_values.t = "tuple"
    /\ ret.status = "return"

\* C8: ces returns (sum_i beta_i * x_i ** rho) ** (1 / rho) + C - Y where
\* rho is one scalar shared by all terms (a plain symbol named after the
\* exponent, never an element of the indexed exponent family) and takes
\* the single configured value; rho = 1 with coefficients (2, 3) and
\* dependent 1 gives c + 2*x[0] + 3*x[1] - 1, rho = 2 gives
\* c + sqrt(sum_i beta_i * x_i ** 2) - Y.
C8_CesSharedExponent ==
    (/\ op.name = "ces"
     /\ obj.num_inputs >= 1
     /\ WellFormedFamily(obj.coeff_values)
     /\ WellFormedScalar(obj.exponent_values)
     /\ WellFormedScalar(obj.constant_value)
     /\ WellFormedScalar(obj.dependent_value)) =>
        LET rho == ScalarLeaf(obj.exponent_values,
                              Symbol(obj.names.exponent_name, FALSE))
        IN  /\ ret = Return([function |->
                               Expr("Sum",
                                    [j \in 1..obj.num_inputs |->
                                       Term(FamilyLeaf(obj.coeff_values,
                                                       obj.symbol_dict.coefficient,
                                                       j - 1),
                                            X(j - 1), rho)],
                                    rho,
                                    ScalarLeaf(obj.constant_value,
                                               obj.symbol_dict.constant),
                                    ScalarLeaf(obj.dependent_value,
                                               obj.symbol_dict.dependent)),
                             symbol_dict |-> obj.symbol_dict])
            /\ ~ Occurs(obj.symbol_dict.exponent, ret.value.function)
            /\ \A j \in 1..obj.num_inputs :
                  ret.value.function.terms[j].exp = ret.value.function.root
            /\ \A k \in Points :
                  LET v == Value(ret.value.function, LAMBDA leaf : Assign(k, leaf))
                  IN  /\ (/\ obj.exponent_values = PyInt(1)
                          /\ obj.num_inputs = 2
                          /\ obj.coeff_values = PyTuple(<<PyInt(2), PyInt(3)>>)
                          /\ obj.dependent_value = PyInt(1)
                          /\ obj.constant_value = SYMBOLS) =>
                             /\ v.comb = 2 * Assign(k, X(0)) + 3 * Assign(k, X(1))
                             /\ v.root = 1
                             /\ v.rest = Assign(k, obj.symbol_dict.constant) - 1
                      /\ (/\ obj.exponent_values = PyInt(2)
                          /\ obj.coeff_values = SYMBOLS
                          /\ obj.constant_value = SYMBOLS
                          /\ obj.dependent_value = SYMBOLS) =>
                             /\ v.comb = SumOf([j \in 1..obj.num_inputs |->
                                     Assign(k, Indexed(obj.symbol_dict.coefficient, j - 1))
                                       * IPow(Assign(k, X(j - 1)), 2)])
                             /\ v.root = 2
                             /\ v.rest = Assign(k, obj.symbol_dict.constant)
                                           - Assign(k, obj.symbol_dict.dependent)

\* ces() with the exponent 2 and two inputs has returned.
C8_Witness ==
    /\ op.name = "ces"
    /\ obj.num_inputs = 2
    /\ obj.exponent_values = PyInt(2)
    /\ obj.coeff_values = SYMBOLS
    /\ ret.status = "return"
    /\ ret.value.function.root = Integer(2)

\* The directive a form operation passes for the exponent is for the
\* indexed family, except in ces, where it is for the shared scalar.
WellFormedExponent ==
    IF op.name = "ces" THEN WellFormedScalar(obj.exponent_values)
    ELSE WellFormedFamily(obj.exponent_values)

\* The only mis-shaped directive of the object is the one of the role.
OnlyMisshaped(role) ==
    /\ role # "coefficient" => WellFormedFamily(obj.coeff_values)
    /\ role # "exponent" => WellFormedExponent
    /\ role # "constant" => WellFormedScalar(obj.constant_value)
    /\ role # "dependent" => WellFormedScalar(obj.dependent_value)

IntForFamily(role) ==
    \/ role = "coefficient" /\ obj.coeff_values.t = "int"
    \/ role = "exponent" /\ obj.exponent_values.t = "int" /\ op.name # "ces"

TupleForScalar(role) ==
    \/ role = "constant" /\ obj.constant_value.t = "tuple"
    \/ role = "dependent" /\ obj.dependent_value.t = "tuple"

EmptyForFamily(role) ==
    \/ role = "coefficient" /\ obj.coeff_values = PyTuple(<<>>)
    \/ role = "exponent" /\ obj.exponent_values = PyTuple(<<>>)
                         /\ op.name # "ces"

Roles == {"coefficient", "exponent", "constant", "dependent"}

\* C9 as stated: a plain integer for an indexed family ends every form
\* operation in a type error, a tuple for the constant or the dependent in
\* an attribute error, an empty tuple for a family whose elements occur in
\* the expression in an index error; no expression is returned.
C9_MismatchesAlwaysRaise ==
    op.name \in FormOps =>
        \A role \in Roles :
            OnlyMisshaped(role) =>
                /\ IntForFamily(role) => ret = Raise("TypeError")
                /\ TupleForScalar(role) => ret = Raise("AttributeError")
                /\ (EmptyForFamily(role)
                      /\ Occurs(obj.symbol_dict[role], call.func)) =>
                        ret = Raise("IndexError")

\* C9, amended: the mismatch is never caught or converted, but it is met
\* only where the symbol occurs in the expression the operation builds.
\* With the directive of one role mis-shaped: an integer for a family is a
\* type error, an empty tuple an index error and a tuple for the dependent
\* an attribute error exactly when that symbol occurs in the expression;
\* a tuple for the constant is an attribute error or is put into the
\* expression as it is; when the symbol does not occur the directive is
\* passed over and the operation returns an expression.  Whatever the
\* directives, an operation that fails returns no expression and fails
\* with one of these low-level errors.
C9_MismatchesRaiseWhereSymbolOccurs ==
    op.name \in FormOps =>
        /\ ret.status \in {"return", "raise"}
        /\ ret.status = "raise" =>
              ret.exc \in {"TypeError", "AttributeError", "IndexError"}
        /\ \A role \in Roles :
            OnlyMisshaped(role) =>
                LET occurs == Occurs(obj.symbol_dict[role], call.func)
                IN  /\ IntForFamily(role) =>
                          IF occurs THEN ret = Raise("TypeError")
                          ELSE ret.status = "return"
                    /\ EmptyForFamily(role) =>
                          IF occurs THEN ret = Raise("IndexError")
                          ELSE ret.status = "return"
                    /\ (role = "dependent" /\ TupleForScalar(role)) =>
                          IF occurs THEN ret = Raise("AttributeError")
                          ELSE ret.status = "return"
                    /\ (role = "constant" /\ TupleForScalar(role)) =>
                          IF occurs
                          THEN \/ ret = Raise("AttributeError")
                               \/ /\ ret.status = "return"
                                  /\ ret.value.function.constant.t = "Tuple"
                          ELSE ret.status = "return"

\* An integer for the coefficients has ended minimum_function in a type
\* error.
C9_Witness ==
    /\ op.name = "minimum_function"
    /\ obj.num_inputs = 2
    /\ obj.coeff_values.t = "int"
    /\ OnlyMisshaped("coefficient")
    /\ ret = Raise("TypeError")

\* A tuple for the constant, which minimum_function does not use, has
\* been passed over: the operation returned.
C9_WitnessIgnored ==
    /\ op.name = "minimum_function"
    /\ obj.num_inputs = 2
    /\ obj.constant_value.t = "tuple"
    /\ OnlyMisshaped("constant")
    /\ ret.status = "return"

\* C10: constructing a form (BaseForms or a specialization) fails
\* exactly when num_inputs is negative (zero is accepted); a constructed
\* object holds a registry of the six role symbols named after the
\* configured display names.
C10_Construction ==
    op.name \in {"init", "Input_Constraint"} =>
        /\ (ret.status = "raise") <=> (op.num_inputs < 0)
        /\ op.num_inputs < 0 => ret = Raise("Exception") /\ ~ obj.alive
        /\ op.num_inputs >= 0 =>
              /\ obj.alive
              /\ obj.num_inputs = op.num_inputs
              /\ DOMAIN obj.symbol_dict
                   = {"constant", "dependent", "i", "coefficient",
                      "exponent", "inputs"}
              /\ obj.symbol_dict.constant = Symbol(obj.names.constant_name, TRUE)
              /\ obj.symbol_dict.dependent = Symbol(obj.names.dependent_name, TRUE)
              /\ obj.symbol_dict.i = Idx("i")
              /\ obj.symbol_dict.coefficient
                   = IndexedBase(obj.names.coeff_name, TRUE)
              /\ obj.symbol_dict.exponent
                   = IndexedBase(obj.names.exponent_name, TRUE)
              /\ obj.symbol_dict.inputs = IndexedBase(obj.names.input_name, TRUE)

\* C10 for the BaseForms constructor alone.
C10_BaseFormsConstruction == op.name = "init" => C10_Construction

\* An object with num_inputs = 0 and custom display names was constructed.
C10_Witness ==
    /\ op = Op("init", 0)
    /\ obj.alive
    /\ obj.names = CustomNames
    /\ obj.symbol_dict.inputs = IndexedBase("x", TRUE)
    /\ obj.symbol_dict.constant = Symbol("c", TRUE)

\* A construction with a negative num_inputs was refused.
C10_WitnessRaise ==
    /\ op = Op("init", -1)
    /\ ret = Raise("Exception")

(***************************************************************************)
(* Utility.                                                                *)
(***************************************************************************)
\* The directives of the object are symbolic, neutral or explicit-full
\* (for ces the exponent directive is for the shared scalar).
WellFormedFor(func_form) ==
    /\ WellFormedFamily(obj.coeff_values)
    /\ IF func_form = "ces" THEN WellFormedScalar(obj.exponent_values)
       ELSE WellFormedFamily(obj.exponent_values)
    /\ WellFormedScalar(obj.constant_value)
    /\ WellFormedScalar(obj.dependent_value)

\* The form named func_form, written from the directives of the object.
ExpectedForm(func_form) ==
    LET coef(j) == FamilyLeaf(obj.coeff_values, obj.symbol_dict.coefficient, j - 1)
        dep == ScalarLeaf(obj.dependent_value, obj.symbol_dict.dependent)
        const == ScalarLeaf(obj.constant_value, obj.symbol_dict.constant)
        rho == ScalarLeaf(obj.exponent_values,
                          Symbol(obj.names.exponent_name, FALSE))
    IN  IF func_form = "additive" THEN ExpectedPolynomial("Sum")
        ELSE IF func_form = "multiplicative" THEN ExpectedPolynomial("Product")
        ELSE IF func_form = "minimum"
        THEN Expr("Min",
                  [j \in 1..obj.num_inputs |-> Term(coef(j), X(j - 1), Integer(1))],
                  Integer(1), Integer(0), dep)
        ELSE Expr("Sum",
                  [j \in 1..obj.num_inputs |-> Term(coef(j), X(j - 1), rho)],
                  rho, const, dep)

C11_WitnessRefused ==
    /\ op.name = "Utility"
    /\ op.func_form = "cobb-douglas"
    /\ op.num_inputs = 2
    /\ ret = Raise("Exception")

\* C12: Input_Constraint(...) with a valid configuration (here: every
\* directive symbolic or neutral, num_inputs >= 0) succeeds and stores the
\* additive form sum_i(gamma_i * x_i ** rho_i) + C - M with the directives
\* applied; the dependent variable is named M by default.
C12_ConstraintConstruction ==
    (/\ op.name = "Input_Constraint"
     /\ op.num_inputs >= 0
     /\ \A v \in {op.config.coeff_values, op.config.exponent_values,
                  op.config.dependent_value, op.config.constant_value} :
            v \in {SYMBOLS, PyNone}) =>
        /\ ret.status = "return"
        /\ obj.alive
        /\ obj.function = ExpectedPolynomial("Sum")
        /\ op.config.names = ConstraintNames =>
              obj.symbol_dict.dependent = Symbol("M", TRUE)

\* The stored function is the multiplicative form with explicit numeric
\* coefficients and exponents and symbolic constant and dependent.
IsNumericCobbDouglas ==
    /\ obj.function.form = "Product"
    /\ obj.num_inputs >= 1
    /\ IsExplicitFull(obj.symbol_dict.coefficient, obj.coeff_values)
    /\ IsExplicitFull(obj.symbol_dict.exponent, obj.exponent_values)
    /\ obj.constant_value = SYMBOLS
    /\ obj.dependent_value = SYMBOLS

\* prod_i(b_i * v_i ** a_i) + c for the input vector and constant of op.
UtilityNumber ==
    ProductOf([j \in 1..obj.num_inputs |->
                  obj.coeff_values.items[j].v
                    * IPow(op.input_values.items[j].v,
                           obj.exponent_values.items[j].v)])
        + op.constant.v

IsNumber(e) == \A leaf \in Leaves(e) : leaf.t = "Integer"

NumberOf(e) ==
    LET v == Value(e, LAMBDA leaf : leaf.v) IN v.comb + v.rest

\* C13: for a multiplicative Utility with explicit coefficients b and
\* exponents a (constant and dependent symbolic), get_utility(v, c) returns
\* the number prod_i(b_i * v_i ** a_i) + c for every numeric vector v of
\* length num_inputs, given as a list such as [1, 1] or as a tuple.
C13_GetUtilityNumber ==
    (/\ op.name = "get_utility"
     /\ IsNumericCobbDouglas
     /\ Len(op.input_values.items) = obj.num_inputs) =>
        /\ ret.status = "return"
        /\ IsNumber(ret.value)
        /\ NumberOf(ret.value) = UtilityNumber

\* C13 for input vectors given as tuples.
C13_GetUtilityNumberTuple ==
    op.name = "get_utility" /\ op.input_values.t = "tuple"
        => C13_GetUtilityNumber

\* get_utility((1, 1), 1) with b = a = (2, 2) has returned 5.
C13_WitnessTuple ==
    /\ op.name = "get_utility"
    /\ IsNumericCobbDouglas
    /\ op.input_values = PyTuple(<<PyInt(1), PyInt(1)>>)
    /\ op.constant = PyInt(1)
    /\ obj.coeff_values = PyTuple(<<PyInt(2), PyInt(2)>>)
    /\ obj.exponent_values = PyTuple(<<PyInt(2), PyInt(2)>>)
    /\ ret.status = "return"
    /\ NumberOf(ret.value) = 5

\* The value of a derivative at a sample point.
DValue(d, val(_)) ==
    IF d.t = "Integer" THEN d.v
    ELSE (val(d.factor)
            * ProductOf([j \in DOMAIN d.terms |->
                            val(d.terms[j].coef)
                              * IPow(val(d.terms[j].inp), val(d.terms[j].exp))]))
         \div val(d.over)

\* a_k * prod_i(beta_i) * x_k ** (a_k - 1) * prod_{i # k}(x_i ** a_i) at
\* the sample point k0, for the explicit exponents a of the object.
MarginalNumber(indx, k0) ==
    LET a(j) == obj.exponent_values.items[j].v
        x(j) == Assign(k0, X(j - 1))
    IN  a(indx + 1)
          * ProductOf([j \in 1..obj.num_inputs |->
                          Assign(k0, Indexed(obj.symbol_dict.coefficient, j - 1))])
          * IPow(x(indx + 1), a(indx + 1) - 1)
          * ProductOf([j \in 1..obj.num_inputs |->
                          IF j = indx + 1 THEN 1 ELSE IPow(x(j), a(j))])

DistinctNames ==
    Cardinality({obj.names.input_name, obj.names.coeff_name,
                 obj.names.exponent_name, obj.names.dependent_name,
                 obj.names.constant_name}) = 5

\* The inputs x[k], k < num_inputs, that occur in the expression e.
InputsIn(e) == {k \in 0..(obj.num_inputs - 1) : X(k) \in Leaves(e)}

\* C15 as stated: the indifference query solves for a held input, so some
\* input of the stored form does not occur in the returned expression.
C15_SolvedForHeldInput ==
    (/\ op.name = "get_indifference"
     /\ ret.status = "return"
     /\ obj.num_inputs >= 1
     /\ InputsIn(obj.function) = 0..(obj.num_inputs - 1)) =>
        \E k \in 0..(obj.num_inputs - 1) : k \notin InputsIn(ret.value)

\* C15 amended: get_indifference takes a constant and a utility level only
\* (no held-input index), substitutes them and returns the form unsolved:
\* the combination of the inputs is the stored one, so every input of the
\* stored form still occurs in the result.
C15_IndifferenceUnsolved ==
    op.name = "get_indifference" =>
        /\ DOMAIN op = {"name", "num_inputs", "constant", "dependent"}
        /\ ret.status = "return"
        /\ ret.value.form = obj.function.form
        /\ ret.value.terms = obj.function.terms
        /\ ret.value.root = obj.function.root
        /\ InputsIn(ret.value) = InputsIn(obj.function)

\* get_indifference has returned an expression in which both inputs of a
\* two-input form occur.
C15_Witness ==
    /\ op.name = "get_indifference"
    /\ obj.num_inputs = 2
    /\ ret.status = "return"
    /\ InputsIn(ret.value) = {0, 1}

\* The number a constant or dependent argument stands for (None is 1).
LevelOf(v) == IF v = PyNone THEN 1 ELSE v.v

C17_SymbolDirectiveLeavesSymbolic ==
    (/\ op.name = "Utility"
     /\ ret.status = "return"
     /\ obj.function.form \in {"Sum", "Product"}) =>
        /\ obj.coeff_values = KEEP =>
              \A j \in DOMAIN obj.function.terms :
                  obj.function.terms[j].coef
                      = Indexed(obj.symbol_dict.coefficient, j - 1)
        /\ obj.constant_value = KEEP =>
              obj.function.constant = obj.symbol_dict.constant
        /\ obj.dependent_value = KEEP =>
              obj.function.dependent = obj.symbol_dict.dependent

\* Every leaf of the stored form is a number, a symbol or an indexed symbol.
ScalarLeaves(e) ==
    \A leaf \in Leaves(e) : leaf.t \in {"Integer", "Symbol", "Indexed"}

\* The stored form (root 1) at the sample point k0 with input p raised by
\* dp and input c raised by dc.
ShiftedValue(k0, p, dp, c, dc) ==
    LET val(leaf) == Assign(k0, leaf) + (IF leaf = X(p) THEN dp ELSE 0)
                                      + (IF leaf = X(c) THEN dc ELSE 0)
        v == Value(obj.function, val)
    IN  v.comb + v.rest

\* The mixed second difference of the stored form in inputs p and c: for a
\* polynomial with positive coefficients at positive points it is zero
\* exactly when the second partial derivative is identically zero.
SecondDifference(k0, p, c) ==
    ShiftedValue(k0, p, 1, c, 1) - ShiftedValue(k0, p, 1, c, 0)
        - ShiftedValue(k0, p, 0, c, 1) + ShiftedValue(k0, p, 0, c, 0)

\* C18: is_linear(func) with quasi=False returns True exactly when the
\* second partial of the stored form with respect to every ordered pair of
\* inputs (all num_inputs^2 of them, own and cross) vanishes.
C18_IsLinearAllPairs ==
    (/\ op.name = "is_linear"
     /\ ~ op.quasi
     /\ ScalarLeaves(obj.function)) =>
        /\ ret.status = "return"
        /\ ret.value.v <=>
              \A p \in 0..(obj.num_inputs - 1), c \in 0..(obj.num_inputs - 1) :
                  \A k0 \in Points : SecondDifference(k0, p, c) = 0

\* is_linear has answered False for a form whose first pair (x[0], x[0])
\* has a zero second partial: a later pair decided.
C18_Witness ==
    /\ op.name = "is_linear"
    /\ ~ op.quasi
    /\ obj.num_inputs >= 2
    /\ ScalarLeaves(obj.function)
    /\ \A k0 \in Points : SecondDifference(k0, 0, 0) = 0
    /\ ret = Return(PyBool(FALSE))

\* is_linear has answered True for a form with two inputs.
C18_WitnessLinear ==
    /\ op.name = "is_linear"
    /\ ~ op.quasi
    /\ obj.num_inputs >= 2
    /\ ScalarLeaves(obj.function)
    /\ ret = Return(PyBool(TRUE))

\* The value stored under key in a returned dict of (key, value) pairs.
ValueAt(d, key) ==
    d.items[CHOOSE k \in DOMAIN d.items : d.items[k][1] = key][2]

HasKey(d, key) == \E k \in DOMAIN d.items : d.items[k][1] = key

\* The marginal utility and the price of good i, read from the directives
\* of the objective and of the constraint recorded in op.
MarginalOfGood(i) ==
    FamilyLeaf(obj.coeff_values, obj.symbol_dict.coefficient, i)

PriceOfGood(i) ==
    FamilyLeaf(op.constraint.coeff_values,
               op.constraint.symbol_dict.coefficient, i)

\* The income of the constraint recorded in op: its dependent symbol, or
\* the number given for it.
IncomeOfConstraint ==
    ScalarLeaf(op.constraint.dependent_value, op.constraint.symbol_dict.dependent)

\* lagrangian was called with a linear objective of at least one good,
\* built from well-formed directives with its dependent left symbolic.
IsCornerCase ==
    /\ op.name = "lagrangian"
    /\ obj.num_inputs >= 1
    /\ is_linear(obj, FALSE)
    /\ ScalarLeaves(obj.function)
    /\ WellFormedFamily(obj.coeff_values)
    /\ obj.dependent_value = SYMBOLS

\* The expression v equals income / price at every sample point.
IsIncomeOverPrice(v, income, price) ==
    /\ v.t = "Quotient"
    /\ \A k0 \in Points :
          Assign(k0, v.num) * Assign(k0, price)
              = Assign(k0, income) * Assign(k0, v.den)

\* Good b has the strictly highest utility per dollar (numeric case).
StrictlyBest(b) ==
    \A j \in 0..(obj.num_inputs - 1) :
        j # b => MarginalOfGood(j).v * PriceOfGood(b).v
                    < MarginalOfGood(b).v * PriceOfGood(j).v

\* C19: for a linear objective with numeric marginal utilities, numeric
\* prices and a numeric or symbolic income, lagrangian gives the good with
\* the strictly highest utility per dollar the income divided by its own
\* price, and 0 to every other good.
C19_CornerAllocation ==
    (/\ IsCornerCase
     /\ obj.coeff_values # SYMBOLS
     /\ op.constraint.coeff_values # SYMBOLS
     /\ op.constraint.dependent_value # PyNone) =>
        \A b \in 0..(obj.num_inputs - 1) :
            StrictlyBest(b) =>
                /\ ret.status = "return"
                /\ ret.value.t = "dict"
                /\ \A i \in 0..(obj.num_inputs - 1) :
                      /\ HasKey(ret.value, X(i))
                      /\ IF i = b
                         THEN IsIncomeOverPrice(ValueAt(ret.value, X(i)),
                                                IncomeOfConstraint, PriceOfGood(i))
                         ELSE ValueAt(ret.value, X(i)) = PyInt(0)

\* C20: for a linear objective where some utility per dollar is not a
\* number, lagrangian gives every input i the two-branch piecewise value
\* income / price_i if utility_per_dollar_i >= max_j utility_per_dollar_j,
\* and 0 otherwise.
C20_PiecewiseAllocation ==
    (/\ IsCornerCase
     /\ (obj.coeff_values = SYMBOLS \/ op.constraint.coeff_values = SYMBOLS)) =>
        /\ ret.status = "return"
        /\ ret.value.t = "dict"
        /\ \A i \in 0..(obj.num_inputs - 1) :
              /\ HasKey(ret.value, X(i))
              /\ LET v == ValueAt(ret.value, X(i))
                 IN  /\ v.t = "Piecewise"
                     /\ Len(v.branches) = 2
                     /\ IsIncomeOverPrice(v.branches[1][1],
                                          op.constraint.symbol_dict.dependent,
                                          PriceOfGood(i))
                     /\ v.branches[1][2].lhs
                          = Quotient(MarginalOfGood(i), PriceOfGood(i))
                     /\ v.branches[1][2].rhs.args
                          = {Quotient(MarginalOfGood(j), PriceOfGood(j)) :
                                j \in 0..(obj.num_inputs - 1)}
                     /\ v.branches[2] = <<PyInt(0), TRUE>>

\* What the corner case returns in place of C19: the best good's value is
\* the income divided by the input symbol itself.
C19_AllocationOverInput ==
    (/\ IsCornerCase
     /\ obj.coeff_values # SYMBOLS
     /\ op.constraint.coeff_values # SYMBOLS
     /\ op.constraint.dependent_value # PyNone) =>
        \A b \in 0..(obj.num_inputs - 1) :
            StrictlyBest(b) =>
                /\ ret.status = "return"
                /\ \A i \in 0..(obj.num_inputs - 1) :
                      /\ HasKey(ret.value, X(i))
                      /\ ValueAt(ret.value, X(i))
                           = IF i = b THEN Quotient(IncomeOfConstraint, X(i))
                             ELSE PyInt(0)

\* What the symbolic case returns in place of C20: the first branch of
\* every piecewise value is the dependent symbol of the constraint divided
\* by the input symbol itself.
C20_PiecewiseOverInput ==
    (/\ IsCornerCase
     /\ (obj.coeff_values = SYMBOLS \/ op.constraint.coeff_values = SYMBOLS)) =>
        /\ ret.status = "return"
        /\ \A i \in 0..(obj.num_inputs - 1) :
              /\ HasKey(ret.value, X(i))
              /\ ValueAt(ret.value, X(i)).branches[1][1]
                   = Quotient(op.constraint.symbol_dict.dependent, X(i))

(***************************************************************************)
(* lagrangian on a non-linear objective.                                   *)
(***************************************************************************)
\* The last operation was lagrangian on an objective that is_linear rejects
\* and that could be solved for its dependent symbol.
IsNonLinearCase ==
    /\ op.name = "lagrangian"
    /\ obj.alive
    /\ ~ is_linear(obj, FALSE)
    /\ Solve(obj.function, obj.symbol_dict.dependent) # <<>>

\* C21: on a non-linear objective lagrangian never raises: it returns the
\* solution of the first-order conditions, or, when the solver has no closed
\* form, reports it and returns no allocation (None).
C21_NonLinearNeverRaises == IsNonLinearCase => ret.status = "return"

\* C22: whenever lagrangian returns an allocation, its keys include every
\* input symbol x[0], ..., x[num_inputs - 1] and the multiplier lambda.
C22_AllocationKeys ==
    (op.name = "lagrangian" /\ ret.status = "return" /\ ret.value.t = "dict")
        => /\ HasKey(ret.value, Lambda)
           /\ \A i \in 0..(obj.num_inputs - 1) :
                 HasKey(ret.value, Indexed(obj.symbol_dict.inputs, i))

\* The part of C22 the code keeps: every input is a key of the allocation.
C22_InputKeys ==
    (op.name = "lagrangian" /\ ret.status = "return" /\ ret.value.t = "dict")
        => \A i \in 0..(obj.num_inputs - 1) :
                 HasKey(ret.value, Indexed(obj.symbol_dict.inputs, i))

\* lagrangian was called with a Cobb-Douglas objective (a product of powers
\* of at least two goods with symbolic exponents) and a budget whose prices
\* and income are symbolic.
IsCobbDouglasCase ==
    /\ op.name = "lagrangian"
    /\ obj.alive
    /\ obj.num_inputs >= 2
    /\ obj.function.form = "Product"
    /\ obj.exponent_values = SYMBOLS
    /\ obj.dependent_value = SYMBOLS
    /\ op.constraint.coeff_values = SYMBOLS
    /\ op.constraint.dependent_value = SYMBOLS

\* The demand (alpha_i / sum_j alpha_j) * M / p_i as a quotient of products,
\* at the sample point k0.
IsCobbDouglasDemand(v, i) ==
    /\ v.t = "Quotient"
    /\ \A k0 \in Points :
        LET alpha(j) == Assign(k0, Indexed(obj.symbol_dict.exponent, j))
            total == alpha(0) + (IF obj.num_inputs > 1 THEN alpha(1) ELSE 0)
                              + (IF obj.num_inputs > 2 THEN alpha(2) ELSE 0)
                              + (IF obj.num_inputs > 3 THEN alpha(3) ELSE 0)
        IN  Assign(k0, v.num) * total * Assign(k0, PriceOfGood(i))
              = alpha(i) * Assign(k0, IncomeOfConstraint) * Assign(k0, v.den)

\* C23: for a Cobb-Douglas objective and a linear budget with symbolic
\* prices and income, lagrangian returns an allocation that gives each good i
\* the share (alpha_i / sum_j alpha_j) * M / p_i.
C23_CobbDouglasDemand ==
    IsCobbDouglasCase
        => /\ ret.status = "return"
           /\ ret.value.t = "dict"
           /\ \A i \in 0..(obj.num_inputs - 1) :
                /\ HasKey(ret.value, Indexed(obj.symbol_dict.inputs, i))
                /\ IsCobbDouglasDemand(
                       ValueAt(ret.value, Indexed(obj.symbol_dict.inputs, i)), i)

(***************************************************************************)
(* Ties in the numeric linear case.                                        *)
(***************************************************************************)
\* No good has a higher utility per dollar than good b.
IsBestPerDollar(b) ==
    \A j \in 0..(obj.num_inputs - 1) :
        ~ (MarginalOfGood(b).v * PriceOfGood(j).v
              < MarginalOfGood(j).v * PriceOfGood(b).v)

\* Numeric linear case in which two or more goods share the highest utility
\* per dollar.
IsTieCase ==
    /\ IsCornerCase
    /\ obj.coeff_values # SYMBOLS
    /\ op.constraint.coeff_values # SYMBOLS
    /\ op.constraint.dependent_value # PyNone
    /\ \E a, b \in 0..(obj.num_inputs - 1) :
          a # b /\ IsBestPerDollar(a) /\ IsBestPerDollar(b)

LowestBest ==
    CHOOSE b \in 0..(obj.num_inputs - 1) :
        IsBestPerDollar(b) /\ \A a \in 0..(b - 1) : ~ IsBestPerDollar(a)

C29_DirectivesUnchanged ==
    (op.name = "sub_symbols" /\ call.made) => call.left = call.given

IsRealLeaf(leaf) ==
    IF leaf.t = "Symbol" THEN leaf.real
    ELSE IF leaf.t = "Indexed" THEN leaf.base.real
    ELSE TRUE

\* Every directive of the object is the whole directive 'symbols' or None.
PlainDirectives ==
    /\ obj.coeff_values \in {SYMBOLS, PyNone}
    /\ obj.exponent_values \in {SYMBOLS, PyNone}
    /\ obj.constant_value \in {SYMBOLS, PyNone}
    /\ obj.dependent_value \in {SYMBOLS, PyNone}

\* C28: every symbol that occurs in an expression returned by additive,
\* multiplicative, minimum_function or ces, the shared exponent of ces
\* included, is tagged real.
C28_SymbolsReal ==
    (op.name \in FormOps /\ ret.status = "return" /\ PlainDirectives)
        => \A leaf \in Leaves(ret.value.function) : IsRealLeaf(leaf)

\* The part of C28 the code keeps: the three forms other than ces.
C28_SymbolsRealButCes ==
    (op.name \in FormOps \ {"ces"} /\ ret.status = "return" /\ PlainDirectives)
        => \A leaf \in Leaves(ret.value.function) : IsRealLeaf(leaf)

(***************************************************************************)
(* Consumer: the cached allocation.                                        *)
(***************************************************************************)
\* A query in a run over a positive number of goods and a supported form
\* that held no stored allocation when the query was made: maximize_utility
\* was not called, or it was called and failed.
QueryWithoutAllocation ==
    /\ op.name \in {"get_demand", "get_elasticity"}
    /\ op.num_goods >= 1
    /\ op.util_form \in utils
    /\ ~ op.reconfigured
    /\ (obj.alive => obj.opt_values_dict = <<>>)

\* C24: get_demand and get_elasticity called on a consumer while no
\* maximize_utility has stored an allocation, also after a maximize_utility
\* that failed, end in the 'not solved' error.
C24_UnsolvedQueryIsNotSolved == QueryWithoutAllocation => ret = NotSolved

\* C25: when the utility of a consumer is replaced after maximize_utility,
\* the cached allocation is invalid: a get_demand that follows returns no
\* value of the previous configuration and ends in the 'not solved' error.
C25_ReconfiguredIsUnsolved ==
    (/\ op.name = "get_demand"
     /\ op.num_goods >= 1
     /\ op.util_form \in utils
     /\ op.maximized
     /\ op.reconfigured) => ret = NotSolved

====
